---- MODULE Spec2Model ----
(***************************************************************************)
(* A model of mesh2sdf: the mesh preprocessor (utils.rs), the signed       *)
(* distance sampler and the grid rasterizer (cpu.rs), the callers of the   *)
(* preprocessor (cpu.rs, compute.rs), and the per-tick scan that asks the   *)
(* atlas for slots.  The scan and the atlas allocator have no source in    *)
(* this repository's src/ (only their callers do); they follow sections    *)
(* 4.4 and 6 of the specification.                                         *)
(*                                                                         *)
(* Number representation.  Positions are points of an integer lattice;     *)
(* one world unit is WorldUnit lattice steps.  f32 arithmetic on them is   *)
(* modelled by exact arithmetic: a squared distance or a barycentric       *)
(* coordinate is a rational [n, d] with d > 0, a unit normal N/|N| is      *)
(* kept as its integer direction N, and a length is kept as its square.    *)
(* Rounding is outside the model; the sign bit of a zero is kept where     *)
(* the sampler tests it (is_sign_positive on a barycentric coordinate).    *)
(* The unit normal of a triangle without area is 0/0: its components are   *)
(* NaN, with the sign bit that the build's target gives an invalid         *)
(* operation, and every sum or product they enter is NaN.                  *)
(* The two transcendental quantities, the unit normal's components and     *)
(* the angle returned by acos, are kept to a resolution of 1/Resolution.   *)
(***************************************************************************)
EXTENDS Integers, Sequences, FiniteSets, TLC

\* ------------------------------------------------------------------ bounds
WorldUnit == 50
Resolution == 1000
PointMax == 3
MaxDim == 3

\* --------------------------------------------------------- integer helpers
Abs(i) == IF i < 0 THEN -i ELSE i

Sgn(i) == IF i < 0 THEN -1 ELSE IF i > 0 THEN 1 ELSE 0

\* Division rounding toward zero, b > 0.
TruncDiv(a, b) == IF a >= 0 THEN a \div b ELSE -((-a) \div b)

RECURSIVE SqrtSearch(_, _, _)
SqrtSearch(n, lo, hi) ==
    IF lo >= hi THEN lo
    ELSE LET mid == (lo + hi + 1) \div 2
         IN IF mid * mid <= n THEN SqrtSearch(n, mid, hi)
            ELSE SqrtSearch(n, lo, mid - 1)

\* Floor of the square root.
ISqrt(n) == SqrtSearch(n, 0, IF n < 46340 THEN n ELSE 46340)

\* ----------------------------------------------------------------- vectors
ZERO == <<0, 0, 0>>

\* The vector whose three components are NaN.
NaNVec == <<"NaN">>

IsNaNVec(u) == Len(u) = 1

VAdd(u, v) == <<u[1] + v[1], u[2] + v[2], u[3] + v[3]>>

VSub(u, v) == <<u[1] - v[1], u[2] - v[2], u[3] - v[3]>>

VMul(u, k) == <<u[1] * k, u[2] * k, u[3] * k>>

dot(u, v) == u[1] * v[1] + u[2] * v[2] + u[3] * v[3]

cross(u, v) == <<u[2] * v[3] - u[3] * v[2],
                 u[3] * v[1] - u[1] * v[3],
                 u[1] * v[2] - u[2] * v[1]>>

length_squared(u) == dot(u, u)

\* ------------------------------------------------- OrderedVec and FloatOrd
\* build.nan_sign_bit is the sign bit of the NaN that an invalid operation
\* (0.0 / 0.0) and the operations on its result produce: it depends on the
\* target of the build and on the order of operands the compiler chose.
VARIABLE build

\* An f32 as far as ordering sees it: NaN, or a number; neg0 is the sign bit
\* of a zero or of a NaN.
F32(v) == [nan |-> FALSE, neg0 |-> FALSE, v |-> v]

NaN == [nan |-> TRUE, neg0 |-> FALSE, v |-> 0]

NegZero == [nan |-> FALSE, neg0 |-> TRUE, v |-> 0]

\* The NaN of an invalid operation.
DefaultNaN == [nan |-> TRUE, neg0 |-> build.nan_sign_bit, v |-> 0]

\* The sign bit of an f32.
SignBit(x) == x.v < 0 \/ x.neg0

Zero(minus) == IF minus THEN NegZero ELSE F32(0)

\* The result of an operation with a NaN operand: that operand, the first
\* if both are NaN.
Propagate(x, y) == IF x.nan THEN x ELSE y

\* f32 *, -, + : the exact value; a zero product has the sign of its factors,
\* a zero sum is -0.0 only when both terms are -0.0.
f32_mul(x, y) ==
    IF x.nan \/ y.nan THEN Propagate(x, y)
    ELSE IF x.v * y.v # 0 THEN F32(x.v * y.v)
    ELSE Zero(SignBit(x) # SignBit(y))

f32_add(x, y) ==
    IF x.nan \/ y.nan THEN Propagate(x, y)
    ELSE IF x.v + y.v # 0 THEN F32(x.v + y.v)
    ELSE Zero(x.neg0 /\ y.neg0)

f32_sub(x, y) ==
    IF x.nan \/ y.nan THEN Propagate(x, y)
    ELSE IF x.v # y.v THEN F32(x.v - y.v)
    ELSE Zero(x.neg0 /\ ~y.neg0)

is_sign_positive(x) == ~SignBit(x)

\* f32::partial_cmp: None when either side is NaN; -0.0 and +0.0 are Equal.
partial_cmp(x, y) ==
    IF x.nan \/ y.nan THEN "None"
    ELSE IF x.v < y.v THEN "Less"
    ELSE IF x.v > y.v THEN "Greater"
    ELSE "Equal"

\* f32 ==
f32_eq(x, y) == ~x.nan /\ ~y.nan /\ x.v = y.v

\* FloatOrd::cmp: partial_cmp, NaN below every number and equal to NaN.
FloatOrd_cmp(x, y) ==
    IF partial_cmp(x, y) # "None" THEN partial_cmp(x, y)
    ELSE IF x.nan /\ ~y.nan THEN "Less"
    ELSE IF ~x.nan /\ y.nan THEN "Greater"
    ELSE "Equal"

\* Ordering::then
then(o1, o2) == IF o1 # "Equal" THEN o1 ELSE o2

\* impl Ord for OrderedVec
OrderedVec_cmp(a, b) ==
    then(then(FloatOrd_cmp(a[1], b[1]), FloatOrd_cmp(a[2], b[2])),
         FloatOrd_cmp(a[3], b[3]))

\* #[derive(PartialEq)] on OrderedVec(Vec3A): componentwise f32 ==
OrderedVec_eq(a, b) ==
    f32_eq(a[1], b[1]) /\ f32_eq(a[2], b[2]) /\ f32_eq(a[3], b[3])

\* A lattice position as the OrderedVec that wraps it.
OrderedVec(p) == <<F32(p[1]), F32(p[2]), F32(p[3])>>

\* Vec3A of a vector of the model, every zero +0.0.
Vec3A(p) == <<F32(p[1]), F32(p[2]), F32(p[3])>>

\* Vec3A::cross and Vec3A::dot with the sign of zero components kept.
f32_cross(a, b) ==
    <<f32_sub(f32_mul(a[2], b[3]), f32_mul(a[3], b[2])),
      f32_sub(f32_mul(a[3], b[1]), f32_mul(a[1], b[3])),
      f32_sub(f32_mul(a[1], b[2]), f32_mul(a[2], b[1]))>>

f32_dot(a, b) ==
    f32_add(f32_add(f32_mul(a[1], b[1]), f32_mul(a[2], b[2])),
            f32_mul(a[3], b[3]))

\* a <= b in the order of the map keys.
KeyLe(a, b) == OrderedVec_cmp(OrderedVec(a), OrderedVec(b)) # "Greater"

\* One compare-and-swap of a stable sort by OrderedVec::cmp.
\* An exchange that never happens.
Swap12_Never(t) == t

Swap12(t) == IF KeyLe(t[1], t[2]) THEN t ELSE <<t[2], t[1], t[3]>>

Swap23(t) == IF KeyLe(t[2], t[3]) THEN t ELSE <<t[1], t[3], t[2]>>

\* A sort that leaves the corners as given.
Sort3_AsGiven(t) == t

\* sorted.sort() on the three corners.
Sort3(t) == Swap12(Swap23(Swap12(t)))

\* ------------------------------------------------ transcendental functions
\* pi to the model's resolution.
PiFP == (355 * Resolution) \div 113

\* cos of k/Resolution for 0 <= k <= PiFP/2, times Resolution: the Taylor
\* series to x^8 in Horner form, x2 = x^2.
Horner(x2, d, c) == Resolution - (x2 * c) \div (d * Resolution)

CosQuarter(k) ==
    Horner((k * k) \div Resolution, 2,
        Horner((k * k) \div Resolution, 12,
            Horner((k * k) \div Resolution, 30,
                Horner((k * k) \div Resolution, 56, Resolution))))

CosFP(k) == IF 2 * k <= PiFP THEN CosQuarter(k) ELSE -CosQuarter(PiFP - k)

RECURSIVE ACosSearch(_, _, _)
ACosSearch(c, lo, hi) ==
    IF lo >= hi THEN lo
    ELSE LET mid == (lo + hi) \div 2
         IN IF CosFP(mid) <= c THEN ACosSearch(c, lo, mid)
            ELSE ACosSearch(c, mid + 1, hi)

\* f32::acos: the angle in 0..pi whose cosine is c/Resolution, times Resolution.
acos(c) == ACosSearch(c, 0, PiFP)

\* v * k / r, componentwise, rounded toward zero.
VScale(v, k, r) ==
    <<TruncDiv(v[1] * k, r), TruncDiv(v[2] * k, r), TruncDiv(v[3] * k, r)>>

\* normalize() of the direction N, scaled by k/Resolution, to 1/Resolution:
\* `normal * k` of the source, `normal` itself for k = Resolution.
NormalTimes(N, k) ==
    IF N = ZERO THEN NaNVec
    ELSE VScale(N, k * Resolution,
                ISqrt(length_squared(N) * Resolution * Resolution))

\* ----------------------------------------------------------- preprocessing
\* fn tri_angle(opp, a, b) = ((a*a + b*b - opp*opp) / (2.0 * a * b)).acos();
\* the three lengths are given by their squares.
tri_angle(opp, a, b) ==
    acos(TruncDiv((a + b - opp) * Resolution * Resolution,
                  2 * ISqrt(a * b * Resolution * Resolution)))

\* The reciprocal of x/|N|, kept by its denominator.
Recip(x) == [recip_of |-> x]

\* An insertion that overwrites the entry instead of adding to it.
Accumulate_Overwrite(map, k, term) ==
    [x \in DOMAIN map \cup {k} |-> IF x = k THEN term ELSE map[x]]

\* Vec3A += : a sum with a NaN term is NaN.
AddAssign(u, term) ==
    IF IsNaNVec(u) \/ IsNaNVec(term) THEN NaNVec ELSE VAdd(u, term)

\* entry(k).or_default() += term
Accumulate(map, k, term) ==
    [x \in DOMAIN map \cup {k} |->
        IF x = k
        THEN AddAssign(IF k \in DOMAIN map THEN map[k] ELSE ZERO, term)
        ELSE map[x]]

\* values.chunks_exact(3)
NumChunks(vals) == Len(vals) \div 3

Chunk(vals, i) == <<vals[3 * i - 2], vals[3 * i - 1], vals[3 * i]>>

EmptyData == [vertices |-> <<>>, edges |-> <<>>, triangles |-> <<>>]

\* The cross product with its factors exchanged.
FaceNormal_Reversed(tri) == cross(VSub(tri[3], tri[2]), VSub(tri[2], tri[1]))

\* (b - a).cross(c - b), the direction of the face normal, from the corners
\* in the order the mesh gives them.
FaceNormal(tri) == cross(VSub(tri[2], tri[1]), VSub(tri[3], tri[2]))

\* The length of an edge, by its square.
length(u) == length_squared(u)

\* Angles handed to the wrong corners.
Angles_Shifted(ab_len, ac_len, bc_len) ==
    <<tri_angle(ab_len, ac_len, bc_len),
      tri_angle(bc_len, ab_len, ac_len),
      tri_angle(ac_len, ab_len, bc_len)>>

\* The angles at the sorted corners a, b, c from the three edge lengths.
Angles(ab_len, ac_len, bc_len) ==
    <<tri_angle(bc_len, ab_len, ac_len),
      tri_angle(ac_len, ab_len, bc_len),
      tri_angle(ab_len, ac_len, bc_len)>>

CornerAngles(a, b, c) ==
    Angles(length(VSub(b, a)), length(VSub(c, a)), length(VSub(c, b)))

\* The three angle-weighted vertex terms of one chunk, <<key, term>>, for the
\* sorted corners s.
WeightedTerms(normal, s, angle) ==
    << <<s[1], NormalTimes(normal, angle[1])>>,
       <<s[2], NormalTimes(normal, angle[2])>>,
       <<s[3], NormalTimes(normal, angle[3])>> >>

SortedVertexTerms(normal, s) ==
    WeightedTerms(normal, s, CornerAngles(s[1], s[2], s[3]))

VertexTerms(tri) == SortedVertexTerms(FaceNormal(tri), Sort3(tri))

\* The three unweighted edge terms of one chunk, <<key, term>>.
SortedEdgeTerms(n, s) ==
    << <<<<s[1], s[2]>>, n>>, <<<<s[1], s[3]>>, n>>, <<<<s[2], s[3]>>, n>> >>

EdgeTerms(tri) ==
    SortedEdgeTerms(NormalTimes(FaceNormal(tri), Resolution), Sort3(tri))

\* The sign bits of the components of the face normal: a component that is
\* zero is +0.0 or -0.0 by the products it was subtracted from, and the
\* components of the normalized zero vector are the NaN of 0.0 / 0.0.
NormalSignBits(tri) ==
    [i \in 1..3 |->
        IF FaceNormal(tri) = ZERO THEN SignBit(DefaultNaN)
        ELSE SignBit(f32_cross(Vec3A(VSub(tri[2], tri[1])),
                               Vec3A(VSub(tri[3], tri[2])))[i])]

\* A record whose inverse area is taken along the normal of the sorted
\* corners, so that it is positive whatever the given order was.
SortedTriRecord_OwnNormal(normal, minus, a, b, c) ==
    [a |-> a, b |-> b, c |-> c,
     inv_area |-> Recip(length_squared(cross(VSub(b, a), VSub(c, a)))),
     plane |-> [normal |-> normal, minus |-> minus, d |-> -dot(a, normal)]]

\* The TriData record of one chunk.  plane.normal is the unit normal kept by
\* its direction N, plane.minus the sign bits of its components, plane.d is
\* -(a . N) in units of 1/|N|, and inv_area is the reciprocal of
\* ((b - a) x (c - a)) . N in units of 1/|N|.
SortedTriRecord(normal, minus, a, b, c) ==
    [a |-> a, b |-> b, c |-> c,
     inv_area |-> Recip(dot(cross(VSub(b, a), VSub(c, a)), normal)),
     plane |-> [normal |-> normal, minus |-> minus, d |-> -dot(a, normal)]]

TriRecordOf(normal, minus, s) ==
    SortedTriRecord(normal, minus, s[1], s[2], s[3])

TriRecord(tri) ==
    TriRecordOf(FaceNormal(tri), NormalSignBits(tri), Sort3(tri))

\* Three += on one map.
Accumulate3(map, t) ==
    Accumulate(Accumulate(Accumulate(map, t[1][1], t[1][2]), t[2][1], t[2][2]),
               t[3][1], t[3][2])

\* One pass of the loop over values.chunks_exact(3).
PreprocessChunk(d, tri) ==
    [vertices |-> Accumulate3(d.vertices, VertexTerms(tri)),
     edges |-> Accumulate3(d.edges, EdgeTerms(tri)),
     triangles |-> Append(d.triangles, TriRecord(tri))]

\* ----------------------------------------------------------------- sampler
\* A rational n / d.  f32::MAX is above every distance of the model; 0 / 0
\* is NaN, which is neither below nor above any number.
Rat(n, d) == [n |-> n, d |-> d]

f32_MAX == Rat(1, 0)

RatLt(x, y) == x.n * y.d < y.n * x.d

RatEq(x, y) == x.n * y.d = y.n * x.d

\* A position with rational coordinates, n[i] / d.
RatVec(n, d) == [n |-> n, d |-> d]

\* point.distance_squared(q)
distance_squared(point, q) ==
    Rat(length_squared(VSub(VMul(point, q.d), q.n)), q.d * q.d)

\* struct Res
Res(dist_sq, norm, nearest) ==
    [dist_sq |-> dist_sq, norm |-> norm, nearest |-> nearest]

\* Res { dist_sq: f32::MAX, ..Default::default() }
BestInit == Res(f32_MAX, ZERO, RatVec(ZERO, 1))

\* if dist_sq < best.dist_sq { best = ... }
IfCloser(best, found) ==
    IF RatLt(found.dist_sq, best.dist_sq) THEN found ELSE best

\* The i-th key of the vertex map, in the order of the keys.
VertexAt(map, i) ==
    CHOOSE k \in DOMAIN map :
        Cardinality({x \in DOMAIN map : KeyLe(x, k)}) = i

\* (a0, a1) <= (b0, b1): the order of the edge keys.
EdgeKeyLe(e, f) ==
    then(OrderedVec_cmp(OrderedVec(e[1]), OrderedVec(f[1])),
         OrderedVec_cmp(OrderedVec(e[2]), OrderedVec(f[2]))) # "Greater"

EdgeAt(map, i) ==
    CHOOSE k \in DOMAIN map :
        Cardinality({x \in DOMAIN map : EdgeKeyLe(x, k)}) = i

\* One pass of the loop over the vertices.
VertexRes(point, v, n) ==
    Res(Rat(length_squared(VSub(point, v)), 1), n, RatVec(v, 1))

VertexTier(best, point, v, n) == IfCloser(best, VertexRes(point, v, n))

clamp(x, lo, hi) == IF x < lo THEN lo ELSE IF x > hi THEN hi ELSE x

\* f32::clamp((point - v0).dot(line), 0.0, line_len_sq)
Intercept(point, v0, v1) ==
    clamp(dot(VSub(point, v0), VSub(v1, v0)), 0, length_squared(VSub(v1, v0)))

\* intercept < 0.001 || intercept > line_len_sq * 0.999, the two squared
\* lengths being in lattice steps squared.
InDeadZone(intercept, line_len_sq) ==
    \/ 1000 * intercept < 1 * WorldUnit * WorldUnit
    \/ 1000 * intercept > 999 * line_len_sq

\* v0 + line * (intercept / line_len_sq)
EdgeNearest(v0, v1, intercept) ==
    RatVec(VAdd(VMul(v0, length_squared(VSub(v1, v0))),
                VMul(VSub(v1, v0), intercept)),
           length_squared(VSub(v1, v0)))

EdgeRes(point, nearest, n) == Res(distance_squared(point, nearest), n, nearest)

\* One pass of the loop over the edges.
EdgeTier(best, point, e, n) ==
    IF InDeadZone(Intercept(point, e[1], e[2]),
                  length_squared(VSub(e[2], e[1])))
    THEN best
    ELSE IfCloser(best,
            EdgeRes(point,
                    EdgeNearest(e[1], e[2], Intercept(point, e[1], e[2])), n))

\* |N|^2 for the plane of a triangle record.
NormSq(tri) == length_squared(tri.plane.normal)

\* tri.plane.normal_d().dot(point.extend(1.0)), times |N|.
distance_to_plane(tri, point) == dot(tri.plane.normal, point) + tri.plane.d

distance_to_plane_sq(tri, point) ==
    Rat(distance_to_plane(tri, point) * distance_to_plane(tri, point),
        NormSq(tri))

\* point - distance_to_plane * tri.plane.normal()
point_on_plane(tri, point) ==
    RatVec(VSub(VMul(point, NormSq(tri)),
                VMul(tri.plane.normal, distance_to_plane(tri, point))),
           NormSq(tri))

\* tri.plane.normal() with the sign bits of its zero components.
PlaneNormal(tri) ==
    [i \in 1..3 |->
        IF tri.plane.normal = ZERO
        THEN [nan |-> TRUE, neg0 |-> tri.plane.minus[i], v |-> 0]
        ELSE IF tri.plane.normal[i] = 0 THEN Zero(tri.plane.minus[i])
        ELSE F32(tri.plane.normal[i])]

\* (p - q).cross(point_on_plane - q).dot(normal) * inv_area, times the
\* positive number BaryScale(tri); the sign bit is that of the f32.
Barycentric(tri, p, q, pop) ==
    f32_mul(f32_dot(f32_cross(Vec3A(VSub(p, q)),
                              Vec3A(VSub(pop.n, VMul(q, pop.d)))),
                    PlaneNormal(tri)),
            F32(Sgn(tri.inv_area.recip_of)))

BaryScale(tri) == NormSq(tri) * Abs(tri.inv_area.recip_of)

BaryU(tri, pop) == Barycentric(tri, tri.c, tri.b, pop)

BaryV(tri, pop) == Barycentric(tri, tri.a, tri.c, pop)

\* 1.0 - u - v, times BaryScale(tri); a zero difference is +0.0.
BaryW(tri, pop) ==
    IF BaryU(tri, pop).nan \/ BaryV(tri, pop).nan
    THEN Propagate(BaryU(tri, pop), BaryV(tri, pop))
    ELSE F32(BaryScale(tri) - BaryU(tri, pop).v - BaryV(tri, pop).v)

\* u.is_sign_positive() && v.is_sign_positive() && w.is_sign_positive()
AllSignPositive(tri, pop) ==
    /\ is_sign_positive(BaryU(tri, pop))
    /\ is_sign_positive(BaryV(tri, pop))
    /\ is_sign_positive(BaryW(tri, pop))

\* tri.plane.normal() as a vector of the model.
TriNormal(tri) == IF tri.plane.normal = ZERO THEN NaNVec ELSE tri.plane.normal

TriRes(tri, point) ==
    Res(distance_to_plane_sq(tri, point), TriNormal(tri),
        point_on_plane(tri, point))

\* A pass that takes every plane that is not farther.
TriTier_NoInsideTest(best, point, tri) ==
    IF RatLt(best.dist_sq, distance_to_plane_sq(tri, point)) THEN best
    ELSE TriRes(tri, point)

\* One pass of the loop over the triangles.
TriTier(best, point, tri) ==
    IF RatLt(best.dist_sq, distance_to_plane_sq(tri, point)) THEN best
    ELSE IF AllSignPositive(tri, point_on_plane(tri, point))
         THEN TriRes(tri, point)
    ELSE best

\* A test that takes a zero product for inside.
Outside_Strict(best, point) ==
    /\ ~IsNaNVec(best.norm)
    /\ best.nearest.d # 0
    /\ dot(VSub(VMul(point, best.nearest.d), best.nearest.n), best.norm) > 0

\* direction.dot(best.norm) >= 0.0, direction = point - best.nearest; the
\* comparison is false when the product is NaN.
Outside(best, point) ==
    /\ ~IsNaNVec(best.norm)
    /\ best.nearest.d # 0
    /\ dot(VSub(VMul(point, best.nearest.d), best.nearest.n), best.norm) >= 0

\* The f32 returned: its sign and the square of its magnitude.
Signed(best, point) ==
    [outside |-> Outside(best, point), dist_sq |-> best.dist_sq]

RECURSIVE VertexLoop(_, _, _, _)
\* for &(v, n) in preprocessed.vertices.iter(), from the i-th vertex on.
VertexLoop(best, point, map, i) ==
    IF i > Cardinality(DOMAIN map) THEN best
    ELSE VertexLoop(VertexTier(best, point, VertexAt(map, i),
                               map[VertexAt(map, i)]),
                    point, map, i + 1)

RECURSIVE EdgeLoop(_, _, _, _)
\* for &((v0, v1), n) in preprocessed.edges.iter(), from the i-th edge on.
EdgeLoop(best, point, map, i) ==
    IF i > Cardinality(DOMAIN map) THEN best
    ELSE EdgeLoop(EdgeTier(best, point, EdgeAt(map, i), map[EdgeAt(map, i)]),
                  point, map, i + 1)

RECURSIVE TriLoop(_, _, _, _)
\* for tri in preprocessed.triangles.iter(), from the i-th triangle on.
TriLoop(best, point, list, i) ==
    IF i > Len(list) THEN best
    ELSE TriLoop(TriTier(best, point, list[i]), point, list, i + 1)

\* The closure compute_distance(point, false).
compute_distance(d, point) ==
    Signed(TriLoop(EdgeLoop(VertexLoop(BestInit, point, d.vertices, 1),
                            point, d.edges, 1),
                   point, d.triangles, 1),
           point)

\* -------------------------------------------------------------- rasterizer
\* One byte of the output: byte number `byte` (0 the least significant) of
\* the bit pattern of the f32 `of`.
ByteOf(f, k) == [of |-> f, byte |-> k]

\* The f32 0.0 that a zeroed chunk holds.
PlusZero == [outside |-> TRUE, dist_sq |-> Rat(0, 1)]

\* f32::to_le_bytes
to_le_bytes(f) == <<ByteOf(f, 0), ByteOf(f, 1), ByteOf(f, 2), ByteOf(f, 3)>>

\* data.resize(n, 0)
Zeroed(n) == [j \in 1..n |-> ByteOf(PlusZero, (j - 1) % 4)]

\* chunk.copy_from_slice(bytes) on the chunk number k (from 0) of data.
CopyToChunk(bytes, k, b) ==
    [j \in 1..Len(bytes) |->
        IF j > 4 * k /\ j <= 4 * k + 4 THEN b[j - 4 * k] ELSE bytes[j]]

\* A u32 as its four bytes, least significant first.
U32(n) == [i \in 1..4 |-> (n \div (256 ^ (i - 1))) % 256]

\* The number a u32 holds, when it is below 2^31.
ToNat(u) == u[1] + 256 * u[2] + 65536 * u[3] + 16777216 * u[4]

\* The sum of the byte products of a and b that fall on byte k of a * b.
Column(a, b, k) ==
    LET Term(i) == IF k - i \in 0..3 THEN a[i + 1] * b[k - i + 1] ELSE 0
    IN Term(0) + Term(1) + Term(2) + Term(3)

\* The eight bytes of the full product of two u32, from byte k on.
RECURSIVE ProductBytes(_, _, _, _)
ProductBytes(a, b, k, carry) ==
    IF k > 7 THEN <<>>
    ELSE <<(Column(a, b, k) + carry) % 256>>
         \o ProductBytes(a, b, k + 1, (Column(a, b, k) + carry) \div 256)

\* a * b on u32 in a build without overflow checks.
wrapping_mul(a, b) == SubSeq(ProductBytes(a, b, 0, 0), 1, 4)

\* a * b does not fit in a u32.
overflows(a, b) == SubSeq(ProductBytes(a, b, 0, 0), 5, 8) # <<0, 0, 0, 0>>

\* 4 * dimension.x * dimension.y * dimension.z in u32.
ByteLength(dimension) ==
    wrapping_mul(wrapping_mul(wrapping_mul(U32(4), U32(dimension[1])),
                              U32(dimension[2])),
                 U32(dimension[3]))

ByteLengthOverflows(dimension) ==
    \/ overflows(U32(4), U32(dimension[1]))
    \/ overflows(wrapping_mul(U32(4), U32(dimension[1])), U32(dimension[2]))
    \/ overflows(wrapping_mul(wrapping_mul(U32(4), U32(dimension[1])),
                              U32(dimension[2])),
                 U32(dimension[3]))

\* aabb.half_extents * 2.0 / (dimension - 1).as_vec3a()
\* and aabb.min() + scale * UVec3::new(x, y, z).as_vec3a(), one coordinate.
\* A spacing of span / dimension with the samples at the cell centres.
LatticeCoord_CellCentred(min, half, dim, c) ==
    min + (half * (2 * c + 1)) \div dim

LatticeCoord(min, half, dim, c) == min + (2 * half * c) \div (dim - 1)

LatticePoint(aabb, dimension, x, y, z) ==
    <<LatticeCoord(aabb.min[1], aabb.half_extents[1], dimension[1], x),
      LatticeCoord(aabb.min[2], aabb.half_extents[2], dimension[2], y),
      LatticeCoord(aabb.min[3], aabb.half_extents[3], dimension[3], z)>>

\* ------------------------------------------------------------------- atlas
\* The keys of the atlas: the identities of the geometry of the SDF objects.
AtlasKeys == {"a", "b"}

\* SdfAtlasKey::try_from_sdf gave None: no mesh handle is resolvable.
NoKey == "none"

\* The longest side of the atlas page, in voxels.
PageSide == 18

\* The argument of new(page_dimensions).
PageDim == <<PageSide, 9, 9>>

\* The result of get(key) for a key without a slot.
NoSlot == [position |-> ZERO, size |-> ZERO]

\* new(page_dimensions): slots[k] is the slot of key k, allocated the regions
\* of the page that are taken, confirmed the keys asserted since the last
\* release sweep.
NewPage(dim) ==
    [dim |-> dim, slots |-> [k \in AtlasKeys |-> NoSlot], allocated |-> {},
     confirmed |-> {}]

get(page, key) == page.slots[key]

\* Two regions of the page share a voxel.
Overlap(s, t) ==
    \A i \in 1..3 :
        /\ s.position[i] < t.position[i] + t.size[i]
        /\ t.position[i] < s.position[i] + s.size[i]

\* The regions of the given size that lie in the page and are free.
FreeSlots(page, size) ==
    {s \in [position : (0..(page.dim[1] - size[1])) \X (0..(page.dim[2] - size[2]))
                           \X (0..(page.dim[3] - size[3])),
            size : {size}] :
        \A t \in page.allocated : ~Overlap(s, t)}

\* purge(key), as a mutant: nothing is released.
purge_Nothing(page, key) == page

\* purge(key), as a mutant: the key is forgotten and its region stays taken.
purge_Leaking(page, key) ==
    [page EXCEPT !.slots[key] = NoSlot, !.confirmed = @ \ {key}]

\* purge(key): the slot of the key, if any, is released.
purge(page, key) ==
    [page EXCEPT !.slots[key] = NoSlot, !.confirmed = @ \ {key},
                 !.allocated = @ \ {page.slots[key]}]

\* purge_all(): every slot is released.
purge_all(page) == NewPage(page.dim)

\* remove_all(), as a mutant: the sweep releases every slot.
remove_all_Everything(page) == NewPage(page.dim)

\* remove_all(), the release sweep: the slots of the keys that were not
\* asserted since the last sweep are released, and no key is confirmed.
remove_all(page) ==
    [page EXCEPT
        !.slots = [k \in AtlasKeys |-> IF k \in page.confirmed THEN @[k] ELSE NoSlot],
        !.allocated = @ \ {page.slots[k] : k \in AtlasKeys \ page.confirmed},
        !.confirmed = {}]

\* insert(key, required_size), as a mutant: a key that holds a slot keeps
\* it, whatever the size.
insert_AnySize(page, key, size) ==
    IF get(page, key) # NoSlot
    THEN {[class |-> "Existing", slot |-> get(page, key),
           page |-> [page EXCEPT !.confirmed = @ \cup {key}]]}
    ELSE {[class |-> "New", slot |-> s,
           page |-> [page EXCEPT !.slots[key] = s, !.allocated = @ \cup {s},
                                 !.confirmed = @ \cup {key}]] :
          s \in FreeSlots(page, size)}

\* insert(key, required_size), as a mutant: the slot of the key is released
\* and placed anew on every call.
insert_Fresh(page, key, size) ==
    LET freed == [page EXCEPT !.slots[key] = NoSlot, !.confirmed = @ \ {key},
                              !.allocated = @ \ {page.slots[key]}]
    IN  IF FreeSlots(freed, size) = {}
        THEN {[class |-> "NoFit", slot |-> NoSlot, page |-> freed]}
        ELSE {[class |-> "New", slot |-> s,
               page |-> [freed EXCEPT !.slots[key] = s,
                                      !.allocated = @ \cup {s},
                                      !.confirmed = @ \cup {key}]] :
              s \in FreeSlots(freed, size)}

\* insert(key, required_size): the possible results, each with the page it
\* leaves.  A key that holds a slot of this size keeps it (Existing); else
\* the slot of the key is released and a free region is taken (New), or
\* there is none (NoFit).
insert(page, key, size) ==
    IF get(page, key) # NoSlot /\ get(page, key).size = size
    THEN {[class |-> "Existing", slot |-> get(page, key),
           page |-> [page EXCEPT !.confirmed = @ \cup {key}]]}
    ELSE LET freed == purge(page, key)
         IN  IF FreeSlots(freed, size) = {}
             THEN {[class |-> "NoFit", slot |-> NoSlot, page |-> freed]}
             ELSE {[class |-> "New", slot |-> s,
                    page |-> [freed EXCEPT !.slots[key] = s,
                                           !.allocated = @ \cup {s},
                                           !.confirmed = @ \cup {key}]] :
                   s \in FreeSlots(freed, size)}

\* clear_reqs on the list of requests, as a mutant: the list is kept.
clear_reqs_Keep(reqs) == reqs

\* clear_reqs on the list of requests: reqs.0.clear().
clear_reqs(reqs) == <<>>

\* ------------------------------------------------------------- scheduler
\* The entities that carry an SDF object, in the order of the scan; entity 2
\* is animated.
Ents == {1, 2, 3}

Skinned(e) == e = 2

\* The geometry an entity may use: entities 1 and 2 may share one, and so
\* may entities 2 and 3.
KeysOf(e) == IF e = 1 THEN {"a"} ELSE IF e = 2 THEN {"a", "b"} ELSE {"b"}

\* The grid dimensions of an object: multiples of the work-group size.
ObjectDimensions == {<<8, 8, 8>>, <<16, 8, 8>>}

\* An entity without a resolvable mesh.
NoObject == [key |-> NoKey, visible |-> FALSE, dimension |-> ZERO]

\* What the scan of a tick may find on entity e.
Objects(e) ==
    {NoObject}
    \cup [key : KeysOf(e), visible : {FALSE}, dimension : {ZERO}]
    \cup [key : KeysOf(e), visible : {TRUE}, dimension : ObjectDimensions]

\* The size asked of the atlas: one more sample than voxels on every axis.
RequiredSize(dimension) == <<dimension[1] + 1, dimension[2] + 1, dimension[3] + 1>>

\* An entity the scan of this tick has not come to.
NotScanned == [class |-> "", slot |-> NoSlot]

\* -------------------------------------------------------- grid dimensions
\* const WORKGROUP_SIZE: u32 = 8
WORKGROUP_SIZE == 8

\* The least integer that is not less than n / d, for n >= 0 and d > 0.
CeilDiv(n, d) == (n + d - 1) \div d

\* The voxels of one axis before rounding: the span of the AABB, in lattice
\* steps, times the scale of the object over the world units of a voxel, in
\* lattice steps too.
RawVoxels(span, scale, units_per_voxel) == Rat(span * scale, units_per_voxel)

\* A voxel count rounded up to a multiple of the work-group size.
RoundUp(raw) == WORKGROUP_SIZE * CeilDiv(raw.n, raw.d * WORKGROUP_SIZE)

\* The grid dimension of an object.
GridDimension(span, scale, units_per_voxel) ==
    [i \in 1..3 |-> RoundUp(RawVoxels(span[i], scale, units_per_voxel))]

\* The work-groups of a dispatch, as a mutant: one more than the quotient.
WorkGroups_PlusOne(dims) == [i \in 1..3 |-> (dims[i] \div WORKGROUP_SIZE) + 1]

\* (dims.as_vec3() / WORKGROUP_SIZE as f32).ceil().as_uvec3()
WorkGroups(dims) == [i \in 1..3 |-> CeilDiv(dims[i], WORKGROUP_SIZE)]

\* ------------------------------------------------------ create_sdf_from_fn
\* Vec3::from(aabb.half_extents) / dimension.as_vec3() and
\* aabb.min() + scale * ((UVec3::new(x, y, z) * 2) + 1), one coordinate.
FnCoord(min, half, dim, c) == Rat(min * dim + half * (2 * c + 1), dim)

FnPoint(aabb, dimension, x, y, z) ==
    <<FnCoord(aabb.min[1], aabb.half_extents[1], dimension[1], x),
      FnCoord(aabb.min[2], aabb.half_extents[2], dimension[2], y),
      FnCoord(aabb.min[3], aabb.half_extents[3], dimension[3], z)>>

\* func.0(point): the value of the function of the caller at the point.
FuncAt(point) == [func_at |-> point]

\* The loop counters after the pass at (x, y, z): z innermost, x outermost.
FnNextCell(dim, x, y, z) ==
    IF z + 1 < dim[3] THEN <<x, y, z + 1>>
    ELSE IF y + 1 < dim[2] THEN <<x, y + 1, 0>>
    ELSE <<x + 1, 0, 0>>

\* ------------------------------------------------------------ animated_aabb
\* f32::MAX, above every coordinate of the model; f32::MIN is its negative.
FloatMax == 1000000

FloatMin == -FloatMax

\* The return values: None, and Some(Aabb::from_min_max(minimum, maximum)).
None == [some |-> FALSE, min |-> ZERO, max |-> ZERO]

Some(minimum, maximum) == [some |-> TRUE, min |-> minimum, max |-> maximum]

\* The joint matrices, joint transform * inverse bind pose: translations.
JointMatrices == << <<0, 0, 0>>, <<2, 4, -2>> >>

\* A mesh with joint attributes: per vertex a position, the joints that
\* move it and their weights (the influences left out have weight 0), and
\* an index buffer or none.
SkinMesh(values, joint_indexes, joint_weights, indexed, indices) ==
    [values |-> values, joint_indexes |-> joint_indexes,
     joint_weights |-> joint_weights, indexed |-> indexed, indices |-> indices]

NoSkinMesh == SkinMesh(<<>>, <<>>, <<>>, FALSE, <<>>)

\* The closure weight: the weighted sum of the joint matrices applied to
\* v.extend(1.0), divided by its w.  With all weights zero the sum is the
\* zero matrix and the quotient 0.0 / 0.0.
weight(mesh, joints, index) ==
    IF mesh.joint_weights[index][1] + mesh.joint_weights[index][2] = 0
    THEN NaNVec
    ELSE VAdd(mesh.values[index],
              [k \in 1..3 |->
                 (mesh.joint_weights[index][1]
                      * joints[mesh.joint_indexes[index][1]][k]
                  + mesh.joint_weights[index][2]
                      * joints[mesh.joint_indexes[index][2]][k])
                 \div (mesh.joint_weights[index][1] + mesh.joint_weights[index][2])])

\* The vertices the fold visits, in order: those of the index buffer, or
\* all of them.
Visited(mesh) ==
    IF mesh.indexed THEN mesh.indices ELSE [j \in 1..Len(mesh.values) |-> j]

\* cur_min.min(vertex) and cur_max.max(vertex): f32::min and f32::max skip
\* a NaN operand.
FoldMin(cur, vertex) ==
    IF IsNaNVec(vertex) THEN cur
    ELSE [k \in 1..3 |-> IF vertex[k] < cur[k] THEN vertex[k] ELSE cur[k]]

FoldMax(cur, vertex) ==
    IF IsNaNVec(vertex) THEN cur
    ELSE [k \in 1..3 |-> IF vertex[k] > cur[k] THEN vertex[k] ELSE cur[k]]

max_element(v) == CHOOSE x \in {v[1], v[2], v[3]} : \A k \in 1..3 : v[k] <= x

min_element(v) == CHOOSE x \in {v[1], v[2], v[3]} : \A k \in 1..3 : v[k] >= x

\* The value returned after the fold.
Returned(minimum, maximum) ==
    IF max_element(minimum) # FloatMax /\ min_element(maximum) # FloatMin
    THEN Some(minimum, maximum) ELSE None

\* ------------------------------------------------------- compute pipeline
\* The entities that are asked for: one static and the animated one.
Requesters == {1, 2}

\* The longest request list of a tick.
MaxReqs == 2

\* The size of the image of the Sdf of entity e.
ImageSize(e) == IF e = 1 THEN <<8, 8, 8>> ELSE <<16, 8, 8>>

\* What of an entity a system looks up.
Resources == {"sdf", "mesh", "image", "gpu_image", "poses"}

\* One pass of `for ent in reqs.0.iter()` in preprocess_sdfs, on what the
\* passes before left: a warning and continue, a panic, or an insert of
\* SdfPreprocessedData with the dimensions of the image.
PreprocessRequest(st, ent, found) ==
    IF st.panicked THEN st
    ELSE IF ~found.sdf
        THEN [st EXCEPT !.warnings =
                 Append(@, [ent |-> ent, text |-> "can't get sdf + mesh handle"])]
    ELSE IF ~found.mesh
        THEN [st EXCEPT !.warnings =
                 Append(@, [ent |-> ent, text |-> "failed to get mesh"])]
    ELSE IF ~found.image
        THEN [st EXCEPT !.warnings =
                 Append(@, [ent |-> ent, text |-> "can't find raw image"])]
    ELSE IF Skinned(ent) /\ ~found.poses
        THEN [st EXCEPT !.panicked = TRUE]
    ELSE [st EXCEPT !.preprocessed[ent] = ImageSize(ent)]

RECURSIVE PreprocessRequests(_, _, _, _)
PreprocessRequests(st, reqs, resolvable, i) ==
    IF i > Len(reqs) THEN st
    ELSE PreprocessRequests(PreprocessRequest(st, reqs[i], resolvable[reqs[i]]),
                            reqs, resolvable, i + 1)

\* A map that keeps the bind groups of the frame before.
BindGroups_clear_Keep(bind_groups) == bind_groups

\* sdf_bindgroups.0.clear()
BindGroups_clear(bind_groups) == [e \in DOMAIN bind_groups |-> ZERO]

\* The loop of queue_bind_groups over the entities with SdfPreprocessedData:
\* a warning and continue, or an insert of the bind group with the
\* dimensions.
QueueBindGroups(bind_groups, preprocessed, resolvable) ==
    [e \in DOMAIN bind_groups |->
        IF preprocessed[e] # ZERO /\ resolvable[e].gpu_image
        THEN preprocessed[e] ELSE bind_groups[e]]

RECURSIVE GpuWarnings(_, _, _)
GpuWarnings(preprocessed, resolvable, e) ==
    IF e \notin DOMAIN preprocessed THEN <<>>
    ELSE (IF preprocessed[e] # ZERO /\ ~resolvable[e].gpu_image
          THEN <<[ent |-> e, text |-> "can't find gpu image"]>> ELSE <<>>)
         \o GpuWarnings(preprocessed, resolvable, e + 1)

\* The dispatches of SdfComputeNode::run: one per bind group.
Dispatches(bind_groups) ==
    {[ent |-> e, groups |-> WorkGroups(bind_groups[e])] :
        e \in {f \in DOMAIN bind_groups : bind_groups[f] # ZERO}}

\* ----------------------------------------------------------- generate_sdfs
\* The entities that carry MeshSdf and a mesh handle.
MeshEnts == {1, 2}

\* The boxes an Aabb component can hold; NoAabb for an entity without one.
Aabbs == {"box1", "box2"}

NoAabb == "none"

\* No Sdf component.
NoSdf == [image |-> "none", aabb |-> NoAabb]

\* An entity before it is spawned.  In computed, the calls of
\* create_sdf_from_mesh_cpu made for the entity (history).
NoEntity ==
    [analytic |-> FALSE, aabb |-> NoAabb, loaded |-> FALSE, sdf |-> NoSdf,
     computed |-> 0]

\* new_by_mesh: Query<(Entity, &Handle<Mesh>, &Aabb, &MeshSdf), Without<Sdf>>
new_by_mesh(w) == {e \in DOMAIN w : w[e].aabb # NoAabb /\ w[e].sdf = NoSdf}

\* new_by_anal: Query<(Entity, &Aabb, &AnalyticSdf), Without<Sdf>>
new_by_anal(w) ==
    {e \in DOMAIN w : w[e].aabb # NoAabb /\ w[e].analytic /\ w[e].sdf = NoSdf}

\* A first loop that does not wait for the mesh.
InsertMeshSdfs_Unloaded(w) ==
    [e \in DOMAIN w |->
        IF e \in new_by_mesh(w)
        THEN [w[e] EXCEPT !.sdf = [image |-> "mesh", aabb |-> w[e].aabb],
                          !.computed = @ + 1]
        ELSE w[e]]

\* The Sdf components the first loop asks to insert: for the entities of
\* new_by_mesh whose mesh asset is found, the image of
\* create_sdf_from_mesh_cpu and a clone of the Aabb.
InsertMeshSdfs(w) ==
    [e \in DOMAIN w |->
        IF e \in new_by_mesh(w) /\ w[e].loaded
        THEN [w[e] EXCEPT !.sdf = [image |-> "mesh", aabb |-> w[e].aabb],
                          !.computed = @ + 1]
        ELSE w[e]]

\* The Sdf components the second loop asks to insert, after those of the
\* first: for the entities of new_by_anal (selected before any insert is
\* applied), the image of create_sdf_from_fn and a clone of the Aabb.
InsertAnalyticSdfs(selected, w) ==
    [e \in DOMAIN w |->
        IF e \in selected
        THEN [w[e] EXCEPT !.sdf = [image |-> "fn", aabb |-> w[e].aabb]]
        ELSE w[e]]

\* ------------------------------------------------------------------- state
VARIABLES
    pc,       \* where the program is
    values,   \* values[m]: the flat corner list of mesh m (1: the mesh, 2: its variant)
    data,     \* data[m]: the vertices and edges maps and the triangles list of mesh m
    terms,    \* terms[m]: every += of the preprocessor, in order (history)
    variant,  \* how values[2] was made from values[1]
    sample,   \* the state of one compute_distance call
    raster,   \* the state of the rasterization loop
    ord,      \* the operands and results of OrderedVec comparisons
    load,     \* one call of the preprocessor on a mesh asset, from its caller
    atlas,    \* the SdfAtlas resource: its page and its need_computing list
    scene,    \* scene[e]: the SDF object of entity e as the scan of a tick sees it
    tick,     \* the progress of the scan of a tick, and what it did (history)
    grid,     \* the grid dimension of one object, its atlas size and its dispatch
    compute,  \* the compute requests of a tick and what the pipeline made of them
    world,    \* world[e]: the components of entity e that generate_sdfs reads and writes
    analytic, \* the state of one call of create_sdf_from_fn
    skinning  \* the state of one call of animated_aabb_for_mesh

\* The state outside the preprocessing loop, the sampler and the rasterizer.
scheduler == <<atlas, scene, tick>>

\* The state of the systems around the scan.
systems == <<grid, compute, world, analytic, skinning>>

others == <<load, build, scheduler, systems>>

\* The state of the preprocessing loop, the sampler and the rasterizer.
geometry == <<values, data, terms, variant, sample, raster, ord>>

vars == <<pc, values, data, terms, variant, sample, raster, ord, others>>

\* ------------------------------------------------------------------ inputs
MeshTri == << <<2, 0, 0>>, <<0, 2, 0>>, <<2, 2, 0>> >>

\* A square in the plane z = 0, both triangles wound the same way, and one
\* trailing corner that chunks_exact(3) leaves out.
MeshQuad == << <<0, 0, 0>>, <<2, 0, 0>>, <<2, 2, 0>>,
               <<0, 0, 0>>, <<2, 2, 0>>, <<0, 2, 0>>,
               <<1, 1, 1>> >>

\* A closed tetrahedron, every face wound outward; the lattice point
\* (1, 1, 1) is inside it.
MeshTetra == << <<0, 0, 0>>, <<0, 3, 0>>, <<3, 0, 0>>,
                <<0, 0, 0>>, <<3, 0, 0>>, <<1, 1, 3>>,
                <<3, 0, 0>>, <<0, 3, 0>>, <<1, 1, 3>>,
                <<0, 3, 0>>, <<0, 0, 0>>, <<1, 1, 3>> >>

\* Two triangles folded along the edge (0,0,0)-(2,0,0).
MeshFold == << <<0, 0, 0>>, <<2, 0, 0>>, <<1, 2, 0>>,
               <<2, 0, 0>>, <<0, 0, 0>>, <<1, 0, 2>> >>

Meshes == {MeshTri, MeshQuad, MeshTetra, MeshFold}

\* The 6 orders of 3 corners; the first three keep the winding.
Rotations == {<<1, 2, 3>>, <<2, 3, 1>>, <<3, 1, 2>>}

Reversals == {<<1, 3, 2>>, <<3, 2, 1>>, <<2, 1, 3>>}

CornerOrders == Rotations \cup Reversals

\* The traversal orders of n chunks: place i holds chunk o[i].
TraversalOrders(n) == Permutations(1..n)

\* The mesh vals with the corners of chunk t given in order co and the
\* chunks traversed in order o; corners past the last chunk are kept.
VariantCorner(vals, t, co, src, k) ==
    vals[3 * (src - 1) + (IF src = t THEN co[k] ELSE k)]

Variant(vals, t, co, o) ==
    [j \in 1..Len(vals) |->
        IF j > 3 * NumChunks(vals) THEN vals[j]
        ELSE VariantCorner(vals, t, co, o[((j - 1) \div 3) + 1], ((j - 1) % 3) + 1)]

\* No call of the preprocessor is under way.
IdleLoad ==
    [path |-> "", topology |-> "TriangleList", position |-> TRUE,
     joint_weight |-> TRUE, joint_index |-> TRUE, skin |-> FALSE,
     bindposes |-> TRUE, joints |-> FALSE, count |-> 0, weighted |-> 0,
     triangles |-> 0, panic |-> ""]

\* The targets of the build, by the sign bit of their default NaN.
Builds == {[nan_sign_bit |-> TRUE], [nan_sign_bit |-> FALSE]}

\* No tick has run: the page is empty and no entity has an object.  In log,
\* what the scan of the running tick did on each entity; in prev, the slots
\* at the end of the tick before; in asserted, the keys inserted in the
\* running tick, and in prev_asserted, in the tick before; in prev_nofit, the
\* entities that were NoFit in the tick before; purged_all, that the
\* application called purge_all since then; in headers, the shader headers
\* of the tick before.
IdleTick ==
    [i |-> 0, log |-> [e \in Ents |-> NotScanned],
     prev |-> [k \in AtlasKeys |-> NoSlot], asserted |-> {}, prev_asserted |-> {},
     prev_nofit |-> {}, purged_all |-> FALSE, headers |-> {}]

\* No grid dimension is being computed.
IdleGrid ==
    [span |-> ZERO, scale |-> 0, units_per_voxel |-> 1, dimension |-> ZERO,
     size |-> ZERO, groups |-> ZERO]

\* No request was made, every asset is loaded, nothing is preprocessed,
\* bound or dispatched.  In earlier, the entities requested in the tick
\* before (history); in warnings, the warnings of the running tick.
IdleCompute ==
    [reqs |-> <<>>,
     resolvable |-> [e \in Requesters |->
                       [sdf |-> TRUE, mesh |-> TRUE, image |-> TRUE,
                        gpu_image |-> TRUE, poses |-> TRUE]],
     preprocessed |-> [e \in Requesters |-> ZERO],
     bind_groups |-> [e \in Requesters |-> ZERO],
     dispatched |-> {}, warnings |-> <<>>, earlier |-> {}]

\* No entity of the world carries MeshSdf.
IdleWorld == [e \in MeshEnts |-> NoEntity]

\* create_sdf_from_fn is not running.
IdleAnalytic ==
    [dimension |-> <<0, 0, 0>>, x |-> 0, y |-> 0, z |-> 0,
     data |-> <<>>, chunks |-> 0, visited |-> <<>>, points |-> <<>>]

\* animated_aabb_for_mesh is not running.
IdleSkin ==
    [skinned |-> TRUE, mesh_loaded |-> TRUE, poses_loaded |-> TRUE,
     position |-> "Float32x3", joint_weight |-> "Float32x4",
     joint_index |-> "Uint16x4", transforms |-> TRUE, mesh |-> NoSkinMesh,
     i |-> 0, minimum |-> ZERO, maximum |-> ZERO, result |-> None]

IdleSystems ==
    /\ grid = IdleGrid
    /\ compute = IdleCompute
    /\ world = IdleWorld
    /\ analytic = IdleAnalytic
    /\ skinning = IdleSkin

IdleScheduler ==
    /\ atlas = [page |-> NewPage(PageDim), need_computing |-> <<>>]
    /\ scene = [e \in Ents |-> NoObject]
    /\ tick = IdleTick

Idle ==
    /\ load = IdleLoad
    /\ build = [nan_sign_bit |-> TRUE]
    /\ IdleScheduler
    /\ IdleSystems

NoVariant == [t |-> 0, co |-> <<1, 2, 3>>, o |-> <<>>]

NoResult == [outside |-> TRUE, dist_sq |-> f32_MAX]

IdleSample == [point |-> ZERO, i |-> 0, best |-> BestInit, result |-> NoResult]

IdleRaster ==
    [dimension |-> <<0, 0, 0>>, x |-> 0, y |-> 0, z |-> 0,
     data |-> <<>>, chunks |-> 0, visited |-> <<>>, points |-> <<>>]

IdleOrd ==
    [a |-> OrderedVec(ZERO), b |-> OrderedVec(ZERO), c |-> OrderedVec(ZERO),
     aa |-> "", ab |-> "", ba |-> "", bc |-> "", ac |-> "",
     a_eq_a |-> FALSE, a_eq_b |-> FALSE]

\* ----------------------------------------------------------- preprocessing
\* The mesh whose chunks are being read: the mesh, then its variant.
Current == IF Len(data[1].triangles) < NumChunks(values[1]) THEN 1 ELSE 2

\* What one chunk adds to the history: its three vertex and three edge terms.
TermsOf(i, map, t) ==
    << [map |-> map, tri |-> i, key |-> t[1][1], term |-> t[1][2]],
       [map |-> map, tri |-> i, key |-> t[2][1], term |-> t[2][2]],
       [map |-> map, tri |-> i, key |-> t[3][1], term |-> t[3][2]] >>

PreprocessStep(m, i, tri) ==
    /\ i <= NumChunks(values[m])
    /\ data' = [data EXCEPT ![m] = PreprocessChunk(@, tri)]
    /\ terms' = [terms EXCEPT ![m] =
          @ \o TermsOf(i, "vertices", VertexTerms(tri))
            \o TermsOf(i, "edges", EdgeTerms(tri))]
    /\ pc' = IF i = NumChunks(values[m]) /\ (m = 2 \/ NumChunks(values[2]) = 0)
             THEN "preprocessed" ELSE "preprocess"

PreprocessNext(m, i) == PreprocessStep(m, i, Chunk(values[m], i))

\* One pass of `for tri in values.chunks_exact(3)` of preprocess_mesh_for_sdf.
PreprocessTriangle ==
    /\ pc = "preprocess"
    /\ PreprocessNext(Current, Len(data[Current].triangles) + 1)
    /\ UNCHANGED <<values, variant, sample, raster, ord, others>>

\* The preprocessor run on a mesh and on a variant of it.
InitPre ==
    /\ pc = "preprocess"
    /\ \E m \in Meshes, co \in CornerOrders :
         \E t \in 1..NumChunks(m), o \in TraversalOrders(NumChunks(m)) :
            /\ values = <<m, Variant(m, t, co, o)>>
            /\ variant = [t |-> t, co |-> co, o |-> o]
    /\ data = <<EmptyData, EmptyData>>
    /\ terms = << <<>>, <<>> >>
    /\ sample = IdleSample
    /\ raster = IdleRaster
    /\ ord = IdleOrd
    /\ Idle

NextPre == PreprocessTriangle

SpecPre == InitPre /\ [][NextPre]_vars

\* ------------------------------------------- claims about the preprocessor
Range(f) == {f[i] : i \in DOMAIN f}

Identity(n) == [i \in 1..n |-> i]

\* A sequence as a multiset.
BagOf(seq) == [r \in Range(seq) |-> Cardinality({i \in DOMAIN seq : seq[i] = r})]

SameMaps(d1, d2) == d1.vertices = d2.vertices /\ d1.edges = d2.edges

CornersRead(m) ==
    UNION {Range(Chunk(values[m], i)) : i \in 1..Len(data[m].triangles)}

EdgesOfChunk(tri) == {{tri[1], tri[2]}, {tri[1], tri[3]}, {tri[2], tri[3]}}

EdgesRead(m) ==
    UNION {EdgesOfChunk(Chunk(values[m], i)) : i \in 1..Len(data[m].triangles)}

StrictlyBelow(a, b) == KeyLe(a, b) /\ a # b

\* C8: every stored edge key is ascending, every triangle record has its
\* corners ascending, and there is one vertex key per corner position and one
\* edge key per undirected edge, whatever the corner order of the chunks.
C8_CanonicalKeys ==
    \A m \in 1..2 :
        /\ \A k \in DOMAIN data[m].edges : KeyLe(k[1], k[2])
        /\ \A i \in 1..Len(data[m].triangles) :
              /\ KeyLe(data[m].triangles[i].a, data[m].triangles[i].b)
              /\ KeyLe(data[m].triangles[i].b, data[m].triangles[i].c)
        /\ DOMAIN data[m].vertices = CornersRead(m)
        /\ {{k[1], k[2]} : k \in DOMAIN data[m].edges} = EdgesRead(m)
        /\ Cardinality(DOMAIN data[m].edges) = Cardinality(EdgesRead(m))

\* Two triangles of the variant share an edge that they run through in
\* opposite directions and in the same direction as the mesh does not.
C8_Witness ==
    /\ pc = "preprocessed"
    /\ variant.co \in Reversals
    /\ DOMAIN data[1].edges = DOMAIN data[2].edges
    /\ Cardinality(DOMAIN data[2].edges) < 3 * Len(data[2].triangles)
    /\ \E k \in DOMAIN data[2].edges : StrictlyBelow(k[1], k[2])

\* The interior angle at corner x of the triangle x, y, z, from the dot
\* product of the two edges that leave x.
InteriorAngle(x, y, z) ==
    acos(TruncDiv(dot(VSub(y, x), VSub(z, x)) * Resolution * Resolution,
                  ISqrt(length_squared(VSub(y, x)) * length_squared(VSub(z, x))
                            * Resolution * Resolution)))

RECURSIVE SumTerms(_, _, _, _)
\* The sum of the first n terms of history h that went to key k of map.
SumTerms(h, n, map, k) ==
    IF n = 0 THEN ZERO
    ELSE VAdd(SumTerms(h, n - 1, map, k),
              IF h[n].map = map /\ h[n].key = k THEN h[n].term ELSE ZERO)

TermsFor(m, i, map) ==
    {j \in 1..Len(terms[m]) : terms[m][j].tri = i /\ terms[m][j].map = map}

OtherCorners(tri, c) == {tri[j] : j \in (1..3) \ {c}}

\* C9: every triangle read so far has added exactly one term normal * angle
\* to the vertex entry of each of its corners, the angle being the interior
\* angle at that corner, exactly one term normal to the edge entry of each of
\* its edges, and one record; the maps are the sums of these terms.
C9_OneTermPerFeature ==
    \A m \in 1..2 :
        /\ Cardinality({j \in 1..Len(terms[m]) : terms[m][j].map = "vertices"})
              = 3 * Len(data[m].triangles)
        /\ Cardinality({j \in 1..Len(terms[m]) : terms[m][j].map = "edges"})
              = 3 * Len(data[m].triangles)
        /\ \A i \in 1..Len(data[m].triangles) :
              /\ \A c \in 1..3 :
                    \E j \in TermsFor(m, i, "vertices") :
                       /\ terms[m][j].key = Chunk(values[m], i)[c]
                       /\ \E y, z \in OtherCorners(Chunk(values[m], i), c) :
                            /\ y # z
                            /\ terms[m][j].term =
                                 NormalTimes(FaceNormal(Chunk(values[m], i)),
                                     InteriorAngle(Chunk(values[m], i)[c], y, z))
              /\ \A e \in EdgesOfChunk(Chunk(values[m], i)) :
                    \E j \in TermsFor(m, i, "edges") :
                       /\ {terms[m][j].key[1], terms[m][j].key[2]} = e
                       /\ terms[m][j].term =
                            NormalTimes(FaceNormal(Chunk(values[m], i)), Resolution)
        /\ \A k \in DOMAIN data[m].vertices :
              data[m].vertices[k] = SumTerms(terms[m], Len(terms[m]), "vertices", k)
        /\ \A k \in DOMAIN data[m].edges :
              data[m].edges[k] = SumTerms(terms[m], Len(terms[m]), "edges", k)

C9_Witness ==
    /\ pc = "preprocessed"
    /\ Len(data[1].triangles) = 4
    /\ Len(terms[1]) = 24
    /\ \E k \in DOMAIN data[1].vertices :
          Cardinality({j \in 1..Len(terms[1]) :
              terms[1][j].map = "vertices" /\ terms[1][j].key = k}) = 3

\* ------------------------------------------------------------ the sampler
\* The query points: lattice points in and around the meshes.
Points == {<<x, y, z>> : x, y, z \in -1..PointMax}

\* compute_distance(point, false) is entered.
StartSample ==
    /\ pc = "preprocessed"
    /\ \E point \in Points :
          sample' = [point |-> point, i |-> 1, best |-> BestInit,
                     result |-> NoResult]
    /\ pc' = "vertices"
    /\ UNCHANGED <<values, data, terms, variant, raster, ord, others>>

VertexPass(map, i) ==
    /\ sample' = [sample EXCEPT
          !.best = VertexTier(@, sample.point, VertexAt(map, i),
                              map[VertexAt(map, i)]),
          !.i = IF i < Cardinality(DOMAIN map) THEN i + 1 ELSE 1]
    /\ pc' = IF i < Cardinality(DOMAIN map) THEN "vertices" ELSE "edges"

\* One pass of `for &(v, n) in preprocessed.vertices.iter()`.
VertexStep ==
    /\ pc = "vertices"
    /\ VertexPass(data[1].vertices, sample.i)
    /\ UNCHANGED <<values, data, terms, variant, raster, ord, others>>

EdgePass(map, i) ==
    /\ sample' = [sample EXCEPT
          !.best = EdgeTier(@, sample.point, EdgeAt(map, i),
                            map[EdgeAt(map, i)]),
          !.i = IF i < Cardinality(DOMAIN map) THEN i + 1 ELSE 1]
    /\ pc' = IF i < Cardinality(DOMAIN map) THEN "edges" ELSE "triangles"

\* One pass of `for &((v0, v1), n) in preprocessed.edges.iter()`.
EdgeStep ==
    /\ pc = "edges"
    /\ EdgePass(data[1].edges, sample.i)
    /\ UNCHANGED <<values, data, terms, variant, raster, ord, others>>

TriPass(list, i) ==
    /\ sample' = [sample EXCEPT
          !.best = TriTier(@, sample.point, list[i]),
          !.i = IF i < Len(list) THEN i + 1 ELSE 1]
    /\ pc' = IF i < Len(list) THEN "triangles" ELSE "sign"

\* One pass of `for tri in preprocessed.triangles.iter()`.
TriStep ==
    /\ pc = "triangles"
    /\ TriPass(data[1].triangles, sample.i)
    /\ UNCHANGED <<values, data, terms, variant, raster, ord, others>>

\* The sign is chosen and the distance returned.
Finish ==
    /\ pc = "sign"
    /\ sample' = [sample EXCEPT !.result = Signed(sample.best, sample.point)]
    /\ pc' = "done"
    /\ UNCHANGED <<values, data, terms, variant, raster, ord, others>>

\* One mesh is preprocessed and sampled at one point.
Init ==
    /\ pc = "preprocess"
    /\ \E m \in Meshes : values = <<m, <<>> >>
    /\ variant = NoVariant
    /\ data = <<EmptyData, EmptyData>>
    /\ terms = << <<>>, <<>> >>
    /\ sample = IdleSample
    /\ raster = IdleRaster
    /\ ord = IdleOrd
    /\ Idle

Next ==
    \/ PreprocessTriangle
    \/ StartSample
    \/ VertexStep
    \/ EdgeStep
    \/ TriStep
    \/ Finish

Spec == Init /\ [][Next]_vars

\* --------------------------------------------- claims about the sampler
\* The squared distance from point to vertex v.
VertexDistSq(point, v) == Rat(length_squared(VSub(point, v)), 1)

\* The squared distance from point to its clamped projection on edge e.
EdgeDistSq(point, e) ==
    distance_squared(point,
        EdgeNearest(e[1], e[2], Intercept(point, e[1], e[2])))

EdgeSkipped(point, e) ==
    InDeadZone(Intercept(point, e[1], e[2]), length_squared(VSub(e[2], e[1])))

\* The barycentric coordinate of the projection q of point on the plane of
\* tri that belongs to the corner opposite the edge from p1 to p2, times a
\* positive number: the area of (p1, p2, q) over the area of (a, b, c), both
\* measured along the same normal.
AreaRatio(tri, p1, p2, q) ==
    dot(cross(VSub(p2, p1), VSub(q.n, VMul(p1, q.d))), tri.plane.normal)
        * dot(cross(VSub(tri.b, tri.a), VSub(tri.c, tri.a)), tri.plane.normal)

\* All three barycentric coordinates of the projection are >= 0.
ProjectsInside(tri, point) ==
    /\ AreaRatio(tri, tri.b, tri.c, point_on_plane(tri, point)) >= 0
    /\ AreaRatio(tri, tri.c, tri.a, point_on_plane(tri, point)) >= 0
    /\ AreaRatio(tri, tri.a, tri.b, point_on_plane(tri, point)) >= 0

\* The squared distances that compete, as the claim lists them.
Competing(d, point) ==
    {VertexDistSq(point, v) : v \in DOMAIN d.vertices}
    \cup {EdgeDistSq(point, e) :
            e \in {f \in DOMAIN d.edges : ~EdgeSkipped(point, f)}}
    \cup {distance_to_plane_sq(d.triangles[i], point) :
            i \in {j \in 1..Len(d.triangles) :
                      ProjectsInside(d.triangles[j], point)}}

IsMinimum(x, S) ==
    /\ \E y \in S : RatEq(x, y)
    /\ \A y \in S : ~RatLt(y, x)

\* C2: the square of the magnitude returned is the least of the squared
\* distances to the vertices, to the clamped projections on the edges the
\* dead-zone test keeps, and to the planes of the triangles whose projected
\* point has all three barycentric coordinates non-negative.
C2_NearestFeature ==
    pc = "done" =>
        IsMinimum(sample.result.dist_sq, Competing(data[1], sample.point))

\* best is what one vertex, one edge or one triangle would record: its
\* squared distance, its normal and its nearest point.
FromOneFeature(d, point, best) ==
    \/ \E v \in DOMAIN d.vertices : best = VertexRes(point, v, d.vertices[v])
    \/ \E e \in DOMAIN d.edges :
          best = EdgeRes(point,
                     EdgeNearest(e[1], e[2], Intercept(point, e[1], e[2])),
                     d.edges[e])
    \/ \E i \in 1..Len(d.triangles) : best = TriRes(d.triangles[i], point)

\* dot(point - nearest, normal), times the denominator of nearest.
DirectionDotNormal(point, nearest, normal) ==
    (point[1] * nearest.d - nearest.n[1]) * normal[1]
    + (point[2] * nearest.d - nearest.n[2]) * normal[2]
    + (point[3] * nearest.d - nearest.n[3]) * normal[3]

Sampling == pc \in {"vertices", "edges", "triangles", "sign", "done"}

\* C3: the distance, the normal and the nearest point remembered are always
\* those of one feature, the nearest point lying at the remembered distance;
\* the result has the remembered squared distance as the square of its
\* magnitude and is non-negative exactly when
\* dot(point - nearest, normal) >= 0, so that a point at distance zero from
\* the feature remembered is reported as outside.
C3_Sign ==
    /\ (Sampling /\ sample.best # BestInit) =>
          /\ FromOneFeature(data[1], sample.point, sample.best)
          /\ RatEq(distance_squared(sample.point, sample.best.nearest),
                   sample.best.dist_sq)
    /\ pc = "done" =>
          /\ sample.result.dist_sq = sample.best.dist_sq
          /\ sample.result.outside =
                (DirectionDotNormal(sample.point, sample.best.nearest,
                                    sample.best.norm) >= 0)
          /\ (sample.best.dist_sq.n = 0 => sample.result.outside)

\* A point inside the closed mesh gets a negative distance, from a triangle.
C3_Witness ==
    /\ pc = "done"
    /\ ~sample.result.outside
    /\ sample.result.dist_sq.n # 0
    /\ values[1] = MeshTetra
    /\ \E i \in 1..Len(data[1].triangles) :
          sample.best = TriRes(data[1].triangles[i], sample.point)

\* The edge and the triangle that the next pass looks at.
EdgeNow == EdgeAt(data[1].edges, sample.i)

TriNow == data[1].triangles[sample.i]

\* The clamped parameter is within 0.1% of the squared edge length of one of
\* the two endpoints.
NearEndpoint(intercept, line_len_sq) ==
    \/ 1000 * intercept < line_len_sq
    \/ 1000 * intercept > 999 * line_len_sq

\* C4, as the spec states it: a pass of the edge loop leaves the best alone
\* when the clamped parameter is within 0.1% of the squared edge length of
\* either endpoint, and otherwise lets the edge compete on the squared
\* distance to its clamped point.
C4_RelativeDeadZone ==
    [][EdgeStep =>
         sample'.best =
            IF NearEndpoint(Intercept(sample.point, EdgeNow[1], EdgeNow[2]),
                            length_squared(VSub(EdgeNow[2], EdgeNow[1])))
            THEN sample.best
            ELSE IfCloser(sample.best,
                    EdgeRes(sample.point,
                        EdgeNearest(EdgeNow[1], EdgeNow[2],
                            Intercept(sample.point, EdgeNow[1], EdgeNow[2])),
                        data[1].edges[EdgeNow]))]_vars

\* C5, as the spec states it: a pass of the triangle loop replaces the best
\* only when the projected point has all three barycentric coordinates
\* non-negative and the plane is closer than the best, and leaves the best
\* alone when the squared plane distance exceeds it.
C5_OnlyIfCloser ==
    [][TriStep =>
         /\ sample'.best # sample.best =>
               /\ ProjectsInside(TriNow, sample.point)
               /\ RatLt(distance_to_plane_sq(TriNow, sample.point),
                        sample.best.dist_sq)
         /\ RatLt(sample.best.dist_sq,
                  distance_to_plane_sq(TriNow, sample.point))
               => sample'.best = sample.best]_vars

\* C5, amended: a pass of the triangle loop replaces the best only when the
\* projected point has all three barycentric coordinates non-negative and
\* the plane is not farther than the best (a tie replaces it), and leaves
\* the best alone when the squared plane distance exceeds it.
C5_OnlyIfNotFarther ==
    [][TriStep =>
         /\ sample'.best # sample.best =>
               /\ ProjectsInside(TriNow, sample.point)
               /\ ~RatLt(sample.best.dist_sq,
                         distance_to_plane_sq(TriNow, sample.point))
         /\ RatLt(sample.best.dist_sq,
                  distance_to_plane_sq(TriNow, sample.point))
               => sample'.best = sample.best]_vars

\* The triangle loop is over, the best is a triangle's, and a vertex is
\* exactly as far as its plane: the triangle replaced a best that tied.
C5_Witness ==
    /\ pc = "sign"
    /\ \E i \in 1..Len(data[1].triangles) :
          sample.best = TriRes(data[1].triangles[i], sample.point)
    /\ \E v \in DOMAIN data[1].vertices :
          RatEq(VertexDistSq(sample.point, v), sample.best.dist_sq)

\* --------------------------------------------------------- the rasterizer
\* The box that is sampled: it holds every mesh, and its extent is a
\* multiple of dimension - 1 for every dimension of the model.
Box == [min |-> <<-2, -2, -2>>, half_extents |-> <<3, 3, 3>>]

Dimensions == {<<dx, dy, dz>> : dx, dy, dz \in 2..MaxDim}

\* data.resize(4 * x * y * z, 0) and the chunk iterator at the first chunk.
\* A product that does not fit in a u32 panics in a build with overflow
\* checks and wraps in a build without.
Resize ==
    /\ pc = "preprocessed"
    /\ \E overflow_checks \in BOOLEAN :
          IF overflow_checks /\ ByteLengthOverflows(raster.dimension)
          THEN pc' = "panicked" /\ UNCHANGED raster
          ELSE /\ raster' = [raster EXCEPT
                     !.data = Zeroed(ToNat(ByteLength(raster.dimension))),
                     !.chunks = 0, !.x = 0, !.y = 0, !.z = 0]
               /\ pc' = "raster"
    /\ UNCHANGED <<values, data, terms, variant, sample, ord, others>>

\* Loops nested the other way round: z innermost, x outermost.
NextCell_ZInnermost(dim, x, y, z) ==
    IF z + 1 < dim[3] THEN <<x, y, z + 1>>
    ELSE IF y + 1 < dim[2] THEN <<x, y + 1, 0>>
    ELSE IF x + 1 < dim[1] THEN <<x + 1, 0, 0>>
    ELSE <<0, 0, dim[3]>>

\* The loop counters after the pass at (x, y, z): x innermost, z outermost.
NextCell(dim, x, y, z) ==
    IF x + 1 < dim[1] THEN <<x + 1, y, z>>
    ELSE IF y + 1 < dim[2] THEN <<0, y + 1, z>>
    ELSE <<0, 0, z + 1>>

\* chunks.next().unwrap() finds a chunk.
HasNextChunk(r) == 4 * (r.chunks + 1) <= Len(r.data)

RasterPass(r, point) ==
    /\ raster' = [r EXCEPT
          !.data = CopyToChunk(@, r.chunks,
                               to_le_bytes(compute_distance(data[1], point))),
          !.chunks = @ + 1,
          !.visited = Append(@, <<r.x, r.y, r.z>>),
          !.points = Append(@, point),
          !.x = NextCell(r.dimension, r.x, r.y, r.z)[1],
          !.y = NextCell(r.dimension, r.x, r.y, r.z)[2],
          !.z = NextCell(r.dimension, r.x, r.y, r.z)[3]]
    /\ pc' = IF NextCell(r.dimension, r.x, r.y, r.z)[3] < r.dimension[3]
             THEN "raster" ELSE "rasterized"

\* One pass of the innermost loop: the point is sampled and its distance
\* copied to the next chunk, or the unwrap of the exhausted iterator panics.
RasterStep ==
    /\ pc = "raster"
    /\ IF HasNextChunk(raster)
       THEN RasterPass(raster,
               LatticePoint(Box, raster.dimension, raster.x, raster.y, raster.z))
       ELSE pc' = "panicked" /\ UNCHANGED raster
    /\ UNCHANGED <<values, data, terms, variant, sample, ord, others>>

\* One mesh is preprocessed and rasterized on a grid.
InitRaster ==
    /\ pc = "preprocess"
    /\ \E m \in Meshes : values = <<m, <<>> >>
    /\ variant = NoVariant
    /\ data = <<EmptyData, EmptyData>>
    /\ terms = << <<>>, <<>> >>
    /\ sample = IdleSample
    /\ \E dim \in Dimensions : raster = [IdleRaster EXCEPT !.dimension = dim]
    /\ ord = IdleOrd
    /\ Idle

NextRaster ==
    \/ PreprocessTriangle
    \/ Resize
    \/ RasterStep

SpecRaster == InitRaster /\ [][NextRaster]_vars

\* ------------------------------------------ claims about the rasterizer
\* The lattice points of a grid whose linear index z*dimX*dimY + y*dimX + x
\* is below n.
Below(dim, n) ==
    {p \in (0..dim[1] - 1) \X (0..dim[2] - 1) \X (0..dim[3] - 1) :
        p[3] * dim[1] * dim[2] + p[2] * dim[1] + p[1] < n}

LinearIndex(dim, p) == p[3] * dim[1] * dim[2] + p[2] * dim[1] + p[1]

BoxMax(i) == Box.min[i] + 2 * Box.half_extents[i]

\* C13: the spacing on each axis is (2 * half_extent) / (dimension - 1):
\* the sample of lattice index c is at min + c * spacing, index 0 is at the
\* AABB minimum and index dimension - 1 at the AABB maximum.
C13_NodeCentred ==
    pc \in {"raster", "rasterized"} =>
        /\ Len(raster.points) = Len(raster.visited)
        /\ \A j \in 1..Len(raster.visited) : \A i \in 1..3 :
              /\ (raster.points[j][i] - Box.min[i]) * (raster.dimension[i] - 1)
                    = 2 * Box.half_extents[i] * raster.visited[j][i]
              /\ raster.visited[j][i] = 0 => raster.points[j][i] = Box.min[i]
              /\ raster.visited[j][i] = raster.dimension[i] - 1 =>
                    raster.points[j][i] = BoxMax(i)

\* A grid is full: its first sample was taken at the minimum corner of the
\* AABB, its last at the maximum corner, and one in between.
C13_Witness ==
    /\ pc = "rasterized"
    /\ raster.dimension = <<3, 2, 3>>
    /\ raster.points[1] = Box.min
    /\ raster.points[2] = <<1, -2, -2>>
    /\ raster.points[Len(raster.points)] = <<BoxMax(1), BoxMax(2), BoxMax(3)>>

\* ------------------------------------------------------ the order of keys
\* The components that positions are made of: NaN, both zeros and a number.
XValues == {NaN, NegZero, F32(0), F32(1)}

YZValues == {NaN, F32(0), F32(1)}

Keys == {<<x, y, z>> : x \in XValues, y, z \in YZValues}

\* Three keys are compared with cmp and with ==.
Compare ==
    /\ pc = "keys"
    /\ ord' = [ord EXCEPT
          !.aa = OrderedVec_cmp(ord.a, ord.a),
          !.ab = OrderedVec_cmp(ord.a, ord.b),
          !.ba = OrderedVec_cmp(ord.b, ord.a),
          !.bc = OrderedVec_cmp(ord.b, ord.c),
          !.ac = OrderedVec_cmp(ord.a, ord.c),
          !.a_eq_a = OrderedVec_eq(ord.a, ord.a),
          !.a_eq_b = OrderedVec_eq(ord.a, ord.b)]
    /\ pc' = "compared"
    /\ UNCHANGED <<values, data, terms, variant, sample, raster, others>>

InitOrd ==
    /\ pc = "keys"
    /\ values = << <<>>, <<>> >>
    /\ variant = NoVariant
    /\ data = <<EmptyData, EmptyData>>
    /\ terms = << <<>>, <<>> >>
    /\ sample = IdleSample
    /\ raster = IdleRaster
    /\ Idle
    /\ \E a, b, c \in Keys : ord = [IdleOrd EXCEPT !.a = a, !.b = b, !.c = c]

NextOrd == Compare

SpecOrd == InitOrd /\ [][NextOrd]_vars

\* ------------------------------------- claims about the order of the keys
Reverse(o) == IF o = "Less" THEN "Greater" ELSE IF o = "Greater" THEN "Less" ELSE o

\* x, then y, then z: the first component that is not Equal decides.
Lexicographic(a, b) ==
    IF FloatOrd_cmp(a[1], b[1]) # "Equal" THEN FloatOrd_cmp(a[1], b[1])
    ELSE IF FloatOrd_cmp(a[2], b[2]) # "Equal" THEN FloatOrd_cmp(a[2], b[2])
    ELSE FloatOrd_cmp(a[3], b[3])

\* C10, as the spec states it: cmp is lexicographic by x, then y, then z,
\* reflexive, antisymmetric, transitive and total over all keys, NaN and
\* signed zeros included, and two keys compare Equal exactly when they are
\* equal (==).
C10_TotalOrderAgreesWithEq ==
    pc = "compared" =>
        /\ ord.ab = Lexicographic(ord.a, ord.b)
        /\ ord.aa = "Equal"
        /\ ord.ba = Reverse(ord.ab)
        /\ (ord.ab # "Greater" /\ ord.bc # "Greater") => ord.ac # "Greater"
        /\ ord.ab \in {"Less", "Equal", "Greater"}
        /\ (ord.aa = "Equal") = ord.a_eq_a
        /\ (ord.ab = "Equal") = ord.a_eq_b

\* ------------------------------------------------------------------ the cube
\* shape::Box of the cube_sdf test: four positions for each of the six
\* faces, and two triangles for each face, wound outward.
BoxPositions(lo, hi) ==
    << <<lo, lo, hi>>, <<hi, lo, hi>>, <<hi, hi, hi>>, <<lo, hi, hi>>,
       <<lo, hi, lo>>, <<hi, hi, lo>>, <<hi, lo, lo>>, <<lo, lo, lo>>,
       <<hi, lo, lo>>, <<hi, hi, lo>>, <<hi, hi, hi>>, <<hi, lo, hi>>,
       <<lo, lo, hi>>, <<lo, hi, hi>>, <<lo, hi, lo>>, <<lo, lo, lo>>,
       <<hi, hi, lo>>, <<lo, hi, lo>>, <<lo, hi, hi>>, <<hi, hi, hi>>,
       <<hi, lo, hi>>, <<lo, lo, hi>>, <<lo, lo, lo>>, <<hi, lo, lo>> >>

BoxIndices ==
    << 0, 1, 2, 2, 3, 0,  4, 5, 6, 6, 7, 4,  8, 9, 10, 10, 11, 8,
       12, 13, 14, 14, 15, 12,  16, 17, 18, 18, 19, 16,
       20, 21, 22, 22, 23, 20 >>

\* Some(ix) => ix.iter().map(|ix| values[ix]) on the cube from lo to hi.
MeshCube(lo, hi) ==
    [j \in 1..Len(BoxIndices) |-> BoxPositions(lo, hi)[BoxIndices[j] + 1]]

\* The cubes of the model, by the corner with the largest coordinates; the
\* other corner is the origin.
CubeSides == {2, 3}

\* A cube is preprocessed and sampled at one point.
InitCube ==
    /\ pc = "preprocess"
    /\ \E side \in CubeSides : values = <<MeshCube(0, side), <<>> >>
    /\ variant = NoVariant
    /\ data = <<EmptyData, EmptyData>>
    /\ terms = << <<>>, <<>> >>
    /\ sample = IdleSample
    /\ raster = IdleRaster
    /\ ord = IdleOrd
    /\ Idle

SpecCube == InitCube /\ [][Next]_vars

\* ------------------------------------------------------ claims about the cube
\* The largest coordinate of the cube that is sampled.
Side == values[1][3][1]

StrictlyInside(point) == \A i \in 1..3 : 0 < point[i] /\ point[i] < Side

StrictlyOutside(point) == \E i \in 1..3 : point[i] < 0 \/ point[i] > Side

Positive(f) == f.outside /\ RatLt(Rat(0, 1), f.dist_sq)

Negative(f) == ~f.outside /\ RatLt(Rat(0, 1), f.dist_sq)

\* C14: for a closed cube of 12 triangles wound outward, the sample of every
\* lattice point strictly inside the cube is negative and the sample of
\* every lattice point strictly outside it is positive.
C14_CubeSigns ==
    pc = "done" =>
        /\ Len(data[1].triangles) = 12
        /\ StrictlyInside(sample.point) => Negative(sample.result)
        /\ StrictlyOutside(sample.point) => Positive(sample.result)

\* The centroid of a cube was sampled.
C14_Witness ==
    /\ pc = "done"
    /\ Side = 2
    /\ sample.point = <<1, 1, 1>>
    /\ Negative(sample.result)

\* A point whose nearest feature is a vertex of the cube, and one whose
\* nearest feature is an edge of it, were sampled.
NearestIsVertex ==
    /\ pc = "done"
    /\ sample.point = <<-1, -1, -1>>
    /\ sample.best.nearest = RatVec(ZERO, 1)
    /\ Positive(sample.result)

NearestIsEdge ==
    /\ pc = "done"
    /\ Side = 3
    /\ sample.point = <<-1, -1, 2>>
    /\ sample.best.nearest = RatVec(<<0, 0, 18>>, 9)
    /\ Positive(sample.result)

\* ------------------------------------------------------ degenerate triangles
\* A triangle with two corners in one place, on the edge (2,0,0)-(0,2,0) of
\* MeshTri, and one with its corners in a line, on the edge (2,0,0)-(2,2,0).
Coincident == << <<2, 0, 0>>, <<2, 0, 0>>, <<0, 2, 0>> >>

Collinear == << <<2, 0, 0>>, <<2, 1, 0>>, <<2, 2, 0>> >>

\* A triangle with its corners in a line on the edge (0,0,0)-(3,0,0) of
\* MeshTetra.
CollinearTetra == << <<0, 0, 0>>, <<1, 0, 0>>, <<3, 0, 0>> >>

\* The meshes with one triangle of zero area, each with the mesh it was
\* added to; the triangle is the first or the last of the list.
DegenerateMeshes ==
    {<<MeshTri \o Coincident, MeshTri>>, <<Coincident \o MeshTri, MeshTri>>,
     <<MeshTri \o Collinear, MeshTri>>, <<Collinear \o MeshTri, MeshTri>>,
     <<MeshTetra \o CollinearTetra, MeshTetra>>,
     <<CollinearTetra \o MeshTetra, MeshTetra>>}

\* A mesh with a degenerate triangle, and the mesh without it, are
\* preprocessed; the first is sampled at one point.
InitDegenerate ==
    /\ pc = "preprocess"
    /\ values \in DegenerateMeshes
    /\ variant = NoVariant
    /\ data = <<EmptyData, EmptyData>>
    /\ terms = << <<>>, <<>> >>
    /\ sample = IdleSample
    /\ raster = IdleRaster
    /\ ord = IdleOrd
    /\ load = IdleLoad
    /\ build \in Builds
    /\ IdleScheduler
    /\ IdleSystems

SpecDegenerate == InitDegenerate /\ [][Next]_vars

\* ------------------------------------------ claims about degenerate triangles
\* The Res that compute_distance ends with.
BestOf(d, point) ==
    TriLoop(EdgeLoop(VertexLoop(BestInit, point, d.vertices, 1),
                     point, d.edges, 1),
            point, d.triangles, 1)

IsNaNRat(x) == x.n = 0 /\ x.d = 0

\* The pseudonormals of the vertices and edges of the other triangles are
\* not NaN.
PseudonormalsKept ==
    pc \in {"preprocessed", "vertices", "edges", "triangles", "sign", "done"} =>
        /\ \A k \in DOMAIN data[2].vertices : ~IsNaNVec(data[1].vertices[k])
        /\ \A k \in DOMAIN data[2].edges : ~IsNaNVec(data[1].edges[k])

\* The distance returned is not NaN.
DistanceKept == pc = "done" => ~IsNaNRat(sample.result.dist_sq)

\* Where the nearest point is the one the other triangles give, the sign is
\* the one they give.
SignKept ==
    (pc = "done" /\ sample.best.nearest = BestOf(data[2], sample.point).nearest)
        => sample.result.outside =
              Outside(BestOf(data[2], sample.point), sample.point)

\* C12, as the spec states it: with one zero-area triangle in the mesh,
\* preprocessing and sampling complete, and the pseudonormals of the
\* vertices and edges of the other triangles, and the distances and signs
\* obtained from them, are not turned into NaN by it.
C12_DegenerateContained == PseudonormalsKept /\ DistanceKept /\ SignKept

\* --------------------------------------------- the calls of the preprocessor
\* The primitive topologies a mesh asset may have.
Topologies == {"TriangleList", "TriangleStrip", "LineList"}

\* The callers of preprocess_mesh_for_sdf: create_sdf_from_mesh_cpu and the
\* system preprocess_sdfs.
Paths == {"cpu", "compute"}

\* The numbers of positions (or of indices) of the mesh.
VertexCounts == {0, 3, 4}

Panic(message) ==
    /\ pc' = "panicked"
    /\ load' = [load EXCEPT !.panic = message]

\* create_sdf_from_mesh_cpu up to its call preprocess_mesh_for_sdf(mesh, None).
EnterCpu ==
    /\ pc = "call"
    /\ load.path = "cpu"
    /\ IF load.topology = "TriangleList"
       THEN pc' = "position" /\ load' = [load EXCEPT !.joints = FALSE]
       ELSE Panic("sdf generation can only work on TriangleLists")
    /\ UNCHANGED <<geometry, build, scheduler, systems>>

\* preprocess_sdfs from `match maybe_skin` to its call of the preprocessor.
EnterCompute ==
    /\ pc = "call"
    /\ load.path = "compute"
    /\ IF load.skin /\ ~load.bindposes THEN Panic("no bindposes")
       ELSE pc' = "position" /\ load' = [load EXCEPT !.joints = load.skin]
    /\ UNCHANGED <<geometry, build, scheduler, systems>>

\* let Some(Float32x3(values)) = mesh.attribute(ATTRIBUTE_POSITION) else panic
CheckPosition ==
    /\ pc = "position"
    /\ IF load.position THEN pc' = "weight" /\ load' = load
       ELSE Panic("bad mesh")
    /\ UNCHANGED <<geometry, build, scheduler, systems>>

\* The closure weight on one position: weight_with_joints if joints.is_some().
Weight ==
    /\ pc = "weight"
    /\ load.weighted < load.count
    /\ IF load.joints /\ ~load.joint_weight THEN Panic("bad joint weights!")
       ELSE IF load.joints /\ ~load.joint_index THEN Panic("bad joint indexes!")
       ELSE pc' = "weight" /\ load' = [load EXCEPT !.weighted = @ + 1]
    /\ UNCHANGED <<geometry, build, scheduler, systems>>

\* The loop over values.chunks_exact(3) and the return of the geometry.
ReturnGeometry ==
    /\ pc = "weight"
    /\ load.weighted = load.count
    /\ pc' = "returned"
    /\ load' = [load EXCEPT !.triangles = load.count \div 3]
    /\ UNCHANGED <<geometry, build, scheduler, systems>>

\* One call of the preprocessor by one of its callers on one mesh asset.
InitLoad ==
    /\ pc = "call"
    /\ values = << <<>>, <<>> >>
    /\ variant = NoVariant
    /\ data = <<EmptyData, EmptyData>>
    /\ terms = << <<>>, <<>> >>
    /\ sample = IdleSample
    /\ raster = IdleRaster
    /\ ord = IdleOrd
    /\ build = [nan_sign_bit |-> TRUE]
    /\ IdleScheduler
    /\ IdleSystems
    /\ \E path \in Paths, topology \in Topologies, count \in VertexCounts,
          position, joint_weight, joint_index, skin, bindposes \in BOOLEAN :
         /\ path = "cpu" => ~skin /\ bindposes
         /\ load = [IdleLoad EXCEPT
                !.path = path, !.topology = topology, !.count = count,
                !.position = position, !.joint_weight = joint_weight,
                !.joint_index = joint_index, !.skin = skin,
                !.bindposes = bindposes]

NextLoad ==
    \/ EnterCpu
    \/ EnterCompute
    \/ CheckPosition
    \/ Weight
    \/ ReturnGeometry

SpecLoad == InitLoad /\ [][NextLoad]_vars

\* ---------------------------------- claims about the calls of the preprocessor
\* What the preprocessor requires of the mesh it is called on.
Precondition ==
    /\ load.position
    /\ load.joints => load.joint_weight /\ load.joint_index
    /\ load.topology = "TriangleList"

\* C11, as the spec states it: whenever the position attribute is missing,
\* or joints are supplied and the joint-weight or joint-index attribute is
\* missing, or the topology is not a triangle list, the call panics with a
\* message and returns no geometry, on the CPU path and on the compute path.
C11_FailsFast ==
    /\ pc = "returned" => Precondition
    /\ pc = "panicked" => load.panic # "" /\ load.triangles = 0

\* ------------------------------------------------------------ the scheduler
\* The start of a tick: the scene has changed on one entity at most, the
\* list of requests is cleared and the atlas releases the slots of the keys
\* that the scan of the tick before did not assert.
BeginTick ==
    /\ pc = "between"
    /\ pc' = "scan"
    /\ \E e \in Ents : \E o \in Objects(e) : scene' = [scene EXCEPT ![e] = o]
    /\ atlas' = [page |-> remove_all(atlas.page),
                 need_computing |-> clear_reqs(atlas.need_computing)]
    /\ tick' = [tick EXCEPT !.i = 1, !.log = [e \in Ents |-> NotScanned],
                            !.asserted = {}, !.headers = {}]
    /\ UNCHANGED <<geometry, load, build, systems>>

\* The scan on an entity that has no mesh, or is hidden: nothing is asked of
\* the atlas, and the slot of the key of an animated object is purged.
Skip(e) ==
    /\ ~scene[e].visible
    /\ atlas' = IF scene[e].key # NoKey /\ Skinned(e)
                THEN [atlas EXCEPT !.page = purge(@, scene[e].key)]
                ELSE atlas
    /\ tick' = [tick EXCEPT !.i = @ + 1,
                            !.log[e] = [class |-> "Skipped", slot |-> NoSlot]]

\* The scan on a visible entity, as a mutant: the object is queued for
\* computing whatever the atlas answers.
Request_QueueAlways(e) ==
    /\ scene[e].visible
    /\ LET key == scene[e].key
           page == IF Skinned(e) THEN purge(atlas.page, key) ELSE atlas.page
       IN  \E r \in insert(page, key, RequiredSize(scene[e].dimension)) :
             /\ atlas' = [page |-> r.page,
                          need_computing |->
                              Append(atlas.need_computing,
                                     [ent |-> e, key |-> key])]
             /\ tick' = [tick EXCEPT
                            !.i = @ + 1,
                            !.log[e] = [class |-> r.class, slot |-> r.slot],
                            !.asserted = @ \cup {key}]

\* The scan on a visible entity: the slot of the key of an animated object
\* is purged, dimension + 1 is asked of the atlas, and the object is queued
\* for computing if the slot is New.
Request(e) ==
    /\ scene[e].visible
    /\ LET key == scene[e].key
           page == IF Skinned(e) THEN purge(atlas.page, key) ELSE atlas.page
       IN  \E r \in insert(page, key, RequiredSize(scene[e].dimension)) :
             /\ atlas' = [page |-> r.page,
                          need_computing |->
                              IF r.class = "New"
                              THEN Append(atlas.need_computing,
                                          [ent |-> e, key |-> key])
                              ELSE atlas.need_computing]
             /\ tick' = [tick EXCEPT
                            !.i = @ + 1,
                            !.log[e] = [class |-> r.class, slot |-> r.slot],
                            !.asserted = @ \cup {key}]

\* One turn of the loop of the scan, on the entity tick.i.
ScanObject ==
    /\ pc = "scan"
    /\ tick.i \in Ents
    /\ pc' = pc
    /\ Skip(tick.i) \/ Request(tick.i)
    /\ UNCHANGED <<geometry, load, build, systems, scene>>

\* SdfAtlasKey::try_from_sdf(sdf, maybe_mesh) on the object of an entity.
try_from_sdf(object) == object.key

\* The keys of the lookup that update_sdf_render builds from the list.
Lookup(need_computing) ==
    {need_computing[j].key : j \in 1..Len(need_computing)}

\* update_sdf_render on one SdfRender, as a mutant: the slot is looked at
\* only if there is one.
RenderPanics_IfLet(page, need_computing, object) == FALSE

\* update_sdf_render on one SdfRender whose entity has the given object: the
\* two unwraps, of the key and, for a key of the list, of its slot.
RenderPanics(page, need_computing, object) ==
    \/ try_from_sdf(object) = NoKey
    \/ /\ try_from_sdf(object) \in Lookup(need_computing)
       /\ get(page, try_from_sdf(object)) = NoSlot

\* What update_sdf_render may come to, over the sets of entities that have
\* an SdfRender; they are entities with a mesh.
RenderOutcomes ==
    {IF \E e \in renders :
            RenderPanics(atlas.page, atlas.need_computing, scene[e])
     THEN "panicked" ELSE pc :
     renders \in SUBSET {e \in Ents : try_from_sdf(scene[e]) # NoKey}}

\* The system update_sdf_render, which runs after the scan in the same
\* stage, on the entities that have an SdfRender: it panics, or it changes
\* nothing of the atlas.
update_sdf_render ==
    /\ pc = "scan"
    /\ tick.i \notin Ents
    /\ pc' \in RenderOutcomes
    /\ UNCHANGED <<geometry, load, build, systems, scheduler>>

\* The headers of queue_sdf_view_bindings, as a mutant: the slot of every
\* object is unwrapped into a header.
SdfHeaders_All(page, objects) ==
    {[ent |-> e, atlas_position |-> ZERO, atlas_size |-> ZERO] : e \in DOMAIN objects}

\* The headers that queue_sdf_view_bindings collects: filter_map over the
\* objects of try_from_sdf(..).and_then(get).and_then(header).
SdfHeaders(page, objects) ==
    {[ent |-> e,
      atlas_position |-> get(page, try_from_sdf(objects[e])).position,
      atlas_size |-> VSub(get(page, try_from_sdf(objects[e])).size, <<1, 1, 1>>)] :
     e \in {f \in DOMAIN objects :
               /\ try_from_sdf(objects[f]) # NoKey
               /\ get(page, try_from_sdf(objects[f])) # NoSlot}}

\* The end of the tick, after the scan: in the render stage the system
\* queue_sdf_view_bindings collects the shader headers.
EndTick ==
    /\ pc = "scan"
    /\ tick.i \notin Ents
    /\ pc' = "between"
    /\ tick' = [tick EXCEPT !.i = 0, !.prev = atlas.page.slots,
                            !.headers = SdfHeaders(atlas.page, scene),
                            !.prev_asserted = tick.asserted,
                            !.prev_nofit =
                                {e \in Ents : tick.log[e].class = "NoFit"},
                            !.purged_all = FALSE]
    /\ UNCHANGED <<geometry, load, build, systems, scene, atlas>>

\* The application, between two ticks: atlas.page.purge_all().
PurgeAll ==
    /\ pc = "between"
    /\ pc' = pc
    /\ atlas' = [atlas EXCEPT !.page = purge_all(@)]
    /\ tick' = [tick EXCEPT !.purged_all = TRUE]
    /\ UNCHANGED <<geometry, load, build, systems, scene>>

InitSched ==
    /\ pc = "between"
    /\ values = << <<>>, <<>> >>
    /\ variant = NoVariant
    /\ data = <<EmptyData, EmptyData>>
    /\ terms = << <<>>, <<>> >>
    /\ sample = IdleSample
    /\ raster = IdleRaster
    /\ ord = IdleOrd
    /\ Idle

NextSched ==
    \/ BeginTick
    \/ ScanObject
    \/ update_sdf_render
    \/ EndTick
    \/ PurgeAll

SpecSched == InitSched /\ [][NextSched]_vars

\* ------------------------------------------------ claims about the scheduler
\* The entities the scan of the running tick has come to, in its order.
Scanned == {e \in Ents : tick.log[e] # NotScanned}

\* The places of entity e in the list of requests.
Places(e) ==
    {j \in 1..Len(atlas.need_computing) : atlas.need_computing[j].ent = e}

\* C15: from the clearing at the start of a tick on, the list of requests
\* holds exactly the entities whose insert of this tick was classified New,
\* each once; an entity classified Existing or NoFit, and one the scan has
\* not come to, is not in it.
C15_ListIsNew ==
    pc \in {"scan", "between"} =>
        \A e \in Ents :
            Cardinality(Places(e)) = IF tick.log[e].class = "New" THEN 1 ELSE 0

\* A tick after the first has ended with an entity queued as New, one
\* Existing and one NoFit.
C15_Witness ==
    /\ pc = "between"
    /\ tick.prev_asserted # {}
    /\ Len(atlas.need_computing) = 1
    /\ \E e, f, g \in Ents :
         /\ tick.log[e].class = "New"
         /\ tick.log[f].class = "Existing"
         /\ tick.log[g].class = "NoFit"

\* The entities the scan of the running tick has come to that asked the
\* atlas for a slot.
Requested == {e \in Scanned : pc = "scan" /\ scene[e].visible}

\* Entity e asks for the slot its key held at the end of the tick before,
\* where the key was asserted, and no entity before it in this tick asked
\* another size for that key.
Reasserted(e) ==
    LET key == scene[e].key
    IN  /\ key \in tick.prev_asserted
        /\ tick.prev[key] # NoSlot
        /\ tick.prev[key].size = RequiredSize(scene[e].dimension)
        /\ \A f \in Requested :
               f < e /\ scene[f].key = key
                   => scene[f].dimension = scene[e].dimension

\* The slot of the key of entity e was purged since the end of the tick
\* before: by the application, or by the scan on an animated object.
Purged(e) ==
    \/ tick.purged_all
    \/ \E f \in Scanned : f <= e /\ Skinned(f) /\ scene[f].key = scene[e].key

\* Entity e was given the slot of the tick before, and was not queued.
Kept(e) ==
    /\ tick.log[e].class = "Existing"
    /\ tick.log[e].slot = tick.prev[scene[e].key]
    /\ Places(e) = {}

\* Right after the release sweep, a key that the scan of the tick before
\* did not assert has no slot.
Released ==
    pc = "scan" /\ tick.i = 1 =>
        \A key \in AtlasKeys \ tick.prev_asserted : get(atlas.page, key) = NoSlot

\* C16, as the spec states it: a key that is not asserted during a tick has
\* no slot after the release sweep of the next tick, and a key asserted in
\* every tick with the same size keeps its slot, is Existing in every tick
\* after the one that allocated it and is not queued again.
C16_StableKeys ==
    /\ Released
    /\ \A e \in Requested : Reasserted(e) => Kept(e)

\* C16, amended: a key that is not asserted during a tick has no slot after
\* the release sweep of the next tick, and a key asserted in every tick with
\* the same size, and not purged in between by purge_all or by the scan on
\* an animated object, keeps its slot, is Existing in every tick after the
\* one that allocated it and is not queued again.
C16_StableUnpurgedKeys ==
    /\ Released
    /\ \A e \in Requested : Reasserted(e) /\ ~Purged(e) => Kept(e)

\* A key was allocated two ticks ago and asserted since: it holds the slot
\* it held, its entity is Existing and not queued; and the other key, not
\* asserted in the tick before, lost its slot in the sweep.
C16_Witness ==
    /\ pc = "scan"
    /\ tick.i \notin Ents
    /\ scene[1].visible /\ Reasserted(1) /\ ~Purged(1) /\ Kept(1)
    /\ get(atlas.page, "a") = tick.prev["a"]
    /\ tick.prev["b"] # NoSlot
    /\ get(atlas.page, "b") = NoSlot
    /\ ~tick.purged_all

\* The scan has just asked the atlas for a slot for entity e.
JustRequested(e) == e \in Requested /\ tick.i = e + 1

\* C17: the scan purges the slot of the key of an animated object before it
\* asks for one, so the object is never Existing; when it is visible it is
\* New and queued, with the slot the atlas now holds for its key, unless
\* the page has no free region of its size.
C17_AnimatedIsNew ==
    \A e \in Ents :
        Skinned(e) /\ JustRequested(e) =>
            /\ tick.log[e].class \in {"New", "NoFit"}
            /\ tick.log[e].class = "NoFit" =>
                   FreeSlots(atlas.page, RequiredSize(scene[e].dimension)) = {}
            /\ tick.log[e].class = "New" =>
                   /\ Places(e) # {}
                   /\ get(atlas.page, scene[e].key) = tick.log[e].slot

\* The animated object is New and queued in a tick although its key held a
\* slot of the size it asks at the end of the tick before, where the key
\* was asserted, and no purge_all came in between.
C17_Witness ==
    /\ JustRequested(2)
    /\ tick.log[2].class = "New"
    /\ Places(2) # {}
    /\ scene[2].key \in tick.prev_asserted
    /\ tick.prev[scene[2].key].size = RequiredSize(scene[2].dimension)
    /\ ~tick.purged_all
    /\ scene[1].key = NoKey

\* The step is the turn of the scan on a visible object that is not animated
\* and whose key holds a slot: insert is called for a key that has a slot.
Reinsert(e) ==
    /\ pc = "scan" /\ tick.i = e /\ tick'.i = e + 1
    /\ scene[e].visible /\ ~Skinned(e)
    /\ get(atlas.page, scene[e].key) # NoSlot

\* The page after the step is the page before it with the slot old released
\* and the slot new, if any, taken by the key.
Resized(key, old, new) ==
    /\ get(atlas'.page, key) = new
    /\ atlas'.page.allocated =
           (atlas.page.allocated \ {old}) \cup (IF new = NoSlot THEN {} ELSE {new})
    /\ \A k \in AtlasKeys \ {key} : get(atlas'.page, k) = get(atlas.page, k)

\* What C18 says of the insert of entity e in a step.
Idempotent(e) ==
    LET key == scene[e].key
        old == get(atlas.page, key)
        size == RequiredSize(scene[e].dimension)
        r == tick'.log[e]
    IN  IF old.size = size
        THEN r.class = "Existing" /\ r.slot = old /\ Resized(key, old, old)
        ELSE /\ r.class \in {"New", "NoFit"}
             /\ r.class = "New" => r.slot.size = size
             /\ r.class = "NoFit" => r.slot = NoSlot
             /\ Resized(key, old, r.slot)

\* C18: asking again for a key that holds a slot gives Existing with that
\* slot, and a page that holds the same slots, every time the size is the
\* size of the slot; with another size it gives New, with a slot of the new
\* size and the old slot released, or NoFit, and never Existing.
C18_Reinsert == [][\A e \in Ents : Reinsert(e) => Idempotent(e)]_vars

\* In one tick the animated object was given a new slot and the object that
\* shares its key, asking the same size after it, was given that slot as
\* Existing.
C18_Witness ==
    /\ JustRequested(3)
    /\ 2 \in Requested
    /\ scene[2] = scene[3]
    /\ tick.log[2].class = "New"
    /\ tick.log[3] = [class |-> "Existing", slot |-> tick.log[2].slot]
    /\ get(atlas.page, scene[3].key) = tick.log[2].slot

\* The keys that hold a slot.
Tracked == {key \in AtlasKeys : get(atlas.page, key) # NoSlot}

\* The region lies in the page.
InPage(s) == \A i \in 1..3 : s.position[i] + s.size[i] <= atlas.page.dim[i]

\* C19: whatever inserts, purges, release sweeps and calls of purge_all have
\* run, the regions of the page that are taken are exactly the slots of the
\* keys that hold one, they lie in the page, and the slots of two keys share
\* no voxel; after purge_all nothing is taken, and a size finds the free
\* regions it finds in a new page.
C19_NoLeaks ==
    /\ atlas.page.allocated = {get(atlas.page, key) : key \in Tracked}
    /\ \A key \in Tracked : InPage(get(atlas.page, key))
    /\ \A j, k \in Tracked :
           j # k => ~Overlap(get(atlas.page, j), get(atlas.page, k))
    /\ pc = "between" /\ tick.purged_all =>
           /\ Tracked = {}
           /\ atlas.page.allocated = {}
           /\ \A d \in ObjectDimensions :
                  FreeSlots(atlas.page, RequiredSize(d))
                      = FreeSlots(NewPage(PageDim), RequiredSize(d))

\* A key held a slot at the end of a tick in which its slot was purged by
\* the scan, allocated and resized, and the application has called
\* purge_all since.
C19_Witness ==
    /\ pc = "between"
    /\ tick.purged_all
    /\ tick.log[2].class = "New"
    /\ tick.log[3].class = "New"
    /\ scene[2].key = scene[3].key
    /\ tick.log[2].slot.size # tick.log[3].slot.size
    /\ tick.prev[scene[3].key] = tick.log[3].slot
    /\ atlas.page.allocated = {}

\* The step is the turn of the scan on entity e, and the atlas answers NoFit.
NoFitStep(e) == pc = "scan" /\ tick.i = e /\ tick'.log[e].class = "NoFit"

\* C20: when the atlas answers NoFit for an object, the list of requests is
\* left as it was, the key of the object holds no slot, the slots of the
\* other keys are left as they were and the scan goes on to the next
\* object; the answer is NoFit only while the page has no free region of
\* the size asked, and the object is asked for again in every tick.
C20_NoFitSkips ==
    [][\A e \in Ents :
          NoFitStep(e) =>
              /\ atlas'.need_computing = atlas.need_computing
              /\ get(atlas'.page, scene[e].key) = NoSlot
              /\ \A key \in AtlasKeys \ {scene[e].key} :
                     get(atlas'.page, key) = get(atlas.page, key)
              /\ FreeSlots(atlas'.page, RequiredSize(scene[e].dimension)) = {}
              /\ pc' = "scan" /\ tick'.i = e + 1 /\ scene' = scene]_vars

\* An object that was NoFit in the tick before, while a key that was no
\* longer asserted held its slot, is New and queued now that the sweep has
\* released that slot.
C20_Witness ==
    /\ JustRequested(3)
    /\ 3 \in tick.prev_nofit
    /\ tick.log[3].class = "New"
    /\ Places(3) # {}
    /\ tick.prev["a"] # NoSlot
    /\ get(atlas.page, "a") = NoSlot
    /\ ~tick.purged_all

\* The key held no slot when the scan of the running tick began: it was
\* purged by the application, or not asserted in the tick before, or it
\* held none at the end of that tick.
NoSlotAtStart(key) ==
    \/ tick.purged_all
    \/ key \notin tick.prev_asserted
    \/ tick.prev[key] = NoSlot

\* In the running tick, f and e are the first and the second object to ask
\* for a slot for one key, which held none when the scan began.
SharedPair(f, e) ==
    /\ f \in Requested /\ e \in Requested /\ f < e
    /\ scene[f].key = scene[e].key
    /\ NoSlotAtStart(scene[e].key)
    /\ \A g \in Requested : scene[g].key = scene[e].key => g >= f

\* The first object is New and queued, the second is Existing with the slot
\* of the first and is not queued.
ComputedOnce(f, e) ==
    /\ tick.log[f].class = "New" /\ Places(f) # {}
    /\ tick.log[e] = [class |-> "Existing", slot |-> tick.log[f].slot]
    /\ Places(e) = {}

\* The atlas holds one region for every key that holds a slot, and no more.
OneSlotPerKey ==
    Cardinality(atlas.page.allocated)
        = Cardinality({key \in AtlasKeys : get(atlas.page, key) # NoSlot})

\* C21, as the spec states it: the atlas never holds two slots for one key,
\* and in a tick where the key of two objects has no slot the first object
\* scanned is New and queued and the second is Existing and not queued.
C21_SharedOnce ==
    /\ OneSlotPerKey
    /\ \A f, e \in Ents : SharedPair(f, e) => ComputedOnce(f, e)

\* C21, amended: the atlas never holds two slots for one key, and in a tick
\* where the key of two objects has no slot the first object scanned is New
\* and queued and the second is Existing and not queued, when the page has
\* room for the first, the second asks the size the first asked and the
\* second is not animated.
C21_SharedOnceSameSize ==
    /\ OneSlotPerKey
    /\ \A f, e \in Ents :
           /\ SharedPair(f, e)
           /\ tick.log[f].class # "NoFit"
           /\ scene[f].dimension = scene[e].dimension
           /\ ~Skinned(e)
           => ComputedOnce(f, e)

\* Two objects share a key that held no slot; the first was given a slot as
\* New, the second that slot as Existing, and the list holds the first alone.
C21_Witness ==
    /\ JustRequested(3)
    /\ SharedPair(2, 3)
    /\ ComputedOnce(2, 3)
    /\ scene[1].key = NoKey
    /\ Len(atlas.need_computing) = 1
    /\ get(atlas.page, scene[3].key) = tick.log[2].slot

\* C22, as the spec states it: when the list of requests is consumed, after
\* the scan of the tick that filled it, the key of every entry holds a slot.
C22_QueuedHaveSlots ==
    pc = "scan" /\ tick.i \notin Ents =>
        \A j \in 1..Len(atlas.need_computing) :
            get(atlas.page, atlas.need_computing[j].key) # NoSlot

\* ------------------------------------------------------ the grid dimension
\* The spans of an AABB along an axis, in lattice steps: none, less than a
\* work-group of voxels, a work-group of voxels of one world unit, a little more.
Spans == {0, 30, 8 * WorldUnit, 8 * WorldUnit + 1}

\* The per-object scale multipliers.
Scales == {1, 2}

\* The world units of a voxel, in lattice steps.
UnitsPerVoxel == {5, WorldUnit}

\* The scan on a visible object: the required grid dimension.
ComputeDimension ==
    /\ pc = "dimension"
    /\ pc' = "insert"
    /\ grid' = [grid EXCEPT !.dimension =
                   GridDimension(grid.span, grid.scale, grid.units_per_voxel)]
    /\ UNCHANGED <<geometry, load, build, scheduler, compute, world, analytic, skinning>>

\* The scan on a visible object: the size asked of the atlas.
RequestSize ==
    /\ pc = "insert"
    /\ pc' = "dispatch"
    /\ grid' = [grid EXCEPT !.size = RequiredSize(grid.dimension)]
    /\ UNCHANGED <<geometry, load, build, scheduler, compute, world, analytic, skinning>>

\* SdfComputeNode::run on the bind group of the object.
Dispatch ==
    /\ pc = "dispatch"
    /\ pc' = "dispatched"
    /\ grid' = [grid EXCEPT !.groups = WorkGroups(grid.dimension)]
    /\ UNCHANGED <<geometry, load, build, scheduler, compute, world, analytic, skinning>>

InitGrid ==
    /\ pc = "dimension"
    /\ values = << <<>>, <<>> >>
    /\ variant = NoVariant
    /\ data = <<EmptyData, EmptyData>>
    /\ terms = << <<>>, <<>> >>
    /\ sample = IdleSample
    /\ raster = IdleRaster
    /\ ord = IdleOrd
    /\ load = IdleLoad
    /\ build = [nan_sign_bit |-> TRUE]
    /\ IdleScheduler
    /\ compute = IdleCompute
    /\ world = IdleWorld
    /\ analytic = IdleAnalytic
    /\ skinning = IdleSkin
    /\ \E span \in Spans \X Spans \X Spans, scale \in Scales,
          units_per_voxel \in UnitsPerVoxel :
         grid = [IdleGrid EXCEPT !.span = span, !.scale = scale,
                                 !.units_per_voxel = units_per_voxel]

NextGrid ==
    \/ ComputeDimension
    \/ RequestSize
    \/ Dispatch

SpecGrid == InitGrid /\ [][NextGrid]_vars

\* ---------------------------------------- claims about the grid dimension
\* d is the least multiple of 8 that is not less than the raw voxel count.
RoundedUp(d, raw) ==
    /\ d % 8 = 0
    /\ d * raw.d >= raw.n
    /\ (d - 8) * raw.d < raw.n

HeadersOf(e) == {h \in tick.headers : h.ent = e}

InitOrders ==
    /\ pc = "preprocess"
    /\ \E m \in Meshes, co \in CornerOrders :
         \E t \in 1..NumChunks(m) :
            /\ values = <<Variant(m, t, co, Identity(NumChunks(m))), <<>> >>
            /\ variant = [t |-> t, co |-> co, o |-> Identity(NumChunks(m))]
    /\ data = <<EmptyData, EmptyData>>
    /\ terms = << <<>>, <<>> >>
    /\ sample = IdleSample
    /\ raster = IdleRaster
    /\ ord = IdleOrd
    /\ Idle

SpecOrders == InitOrders /\ [][Next]_vars

\* The projection of point on the plane of the corners c, as the point
\* itself minus its offset along the normal the corners give in their own
\* order.
Projection(c, point) ==
    RatVec(VSub(VMul(point, length_squared(cross(VSub(c[2], c[1]), VSub(c[3], c[1])))),
                VMul(cross(VSub(c[2], c[1]), VSub(c[3], c[1])),
                     dot(VSub(point, c[1]), cross(VSub(c[2], c[1]), VSub(c[3], c[1]))))),
           length_squared(cross(VSub(c[2], c[1]), VSub(c[3], c[1]))))

\* On which side of the line from p1 to p2 the point q of the plane of the
\* corners c lies: positive on the side of the third corner.
SideOf(c, p1, p2, q) ==
    Sgn(dot(cross(VSub(p2, p1), VSub(q.n, VMul(p1, q.d))),
            cross(VSub(c[2], c[1]), VSub(c[3], c[1]))))

SidesOf(c, q) ==
    {SideOf(c, c[1], c[2], q), SideOf(c, c[2], c[3], q), SideOf(c, c[3], c[1], q)}

NonDegenerate(c) == cross(VSub(c[2], c[1]), VSub(c[3], c[1])) # ZERO

\* C25: for every non-degenerate triangle, with its corners given in any of
\* the 6 orders, and every query point, the test of the sampler (u, v and w
\* all sign-positive) accepts when the projection of the point on the plane
\* of the triangle lies strictly inside the triangle and rejects when it
\* lies strictly outside.  Stated for the triangle and the point the loop
\* over the triangles is at.
C25_InsideTest ==
    pc = "triangles" /\ NonDegenerate(Chunk(values[1], sample.i)) =>
        /\ SidesOf(Chunk(values[1], sample.i),
                   Projection(Chunk(values[1], sample.i), sample.point)) = {1}
             => AllSignPositive(TriNow, point_on_plane(TriNow, sample.point))
        /\ -1 \in SidesOf(Chunk(values[1], sample.i),
                          Projection(Chunk(values[1], sample.i), sample.point))
             => ~AllSignPositive(TriNow, point_on_plane(TriNow, sample.point))

\* A triangle given in a reversed order, whose sorted corners turn the other
\* way than the given ones, has been tested at a point that projects
\* strictly inside it and was taken.
C25_Witness ==
    /\ pc = "sign"
    /\ variant.co \in Reversals
    /\ Sort3(Chunk(values[1], variant.t)) # Chunk(values[1], variant.t)
    /\ data[1].triangles[variant.t].inv_area.recip_of < 0
    /\ SidesOf(Chunk(values[1], variant.t),
               Projection(Chunk(values[1], variant.t), sample.point)) = {1}
    /\ sample.best = TriRes(data[1].triangles[variant.t], sample.point)

\* ------------------------------------------------ the compute pipeline
\* CoreStage::First: clear_reqs, with its commands applied at the end of the
\* stage.
First_clear_reqs ==
    /\ pc = "First"
    /\ pc' = "Update"
    /\ compute' = [compute EXCEPT
          !.earlier = Range(compute.reqs),
          !.reqs = clear_reqs(@),
          !.preprocessed = [e \in Requesters |-> ZERO],
          !.dispatched = {},
          !.warnings = <<>>]
    /\ UNCHANGED <<geometry, load, build, scheduler, grid, world, analytic, skinning>>

\* An asset, a component or a GPU image of an entity appears or goes.
AssetEvent ==
    /\ pc = "Update"
    /\ \E e \in Requesters, r \in Resources :
          /\ r = "poses" => Skinned(e)
          /\ compute' = [compute EXCEPT !.resolvable[e][r] = ~@]
    /\ UNCHANGED <<pc, geometry, load, build, scheduler, grid, world, analytic, skinning>>

\* The scan pushes an entity on SdfComputeRequests.
PushRequest ==
    /\ pc = "Update"
    /\ Len(compute.reqs) < MaxReqs
    /\ \E e \in Requesters :
          compute' = [compute EXCEPT !.reqs = Append(@, e)]
    /\ UNCHANGED <<pc, geometry, load, build, scheduler, grid, world, analytic, skinning>>

\* CoreStage::PostUpdate: preprocess_sdfs, with its commands applied at the
\* end of the stage, and the extraction of the components.
preprocess_sdfs ==
    /\ pc = "Update"
    /\ LET st == PreprocessRequests(
                    [preprocessed |-> compute.preprocessed,
                     warnings |-> compute.warnings, panicked |-> FALSE],
                    compute.reqs, compute.resolvable, 1)
       IN /\ pc' = IF st.panicked THEN "panicked" ELSE "Queue"
          /\ compute' = [compute EXCEPT !.preprocessed = st.preprocessed,
                                        !.warnings = st.warnings]
    /\ UNCHANGED <<geometry, load, build, scheduler, grid, world, analytic, skinning>>

\* RenderStage::Queue: queue_bind_groups.
queue_bind_groups ==
    /\ pc = "Queue"
    /\ pc' = "Render"
    /\ compute' = [compute EXCEPT
          !.bind_groups = QueueBindGroups(BindGroups_clear(@),
                              compute.preprocessed, compute.resolvable),
          !.warnings = @ \o GpuWarnings(compute.preprocessed,
                                        compute.resolvable, 1)]
    /\ UNCHANGED <<geometry, load, build, scheduler, grid, world, analytic, skinning>>

\* SdfComputeNode::run: with a bind group to dispatch, the pipeline is
\* compiled or the unwrap panics.
SdfComputeNode_run ==
    /\ pc = "Render"
    /\ \E compiled \in BOOLEAN :
          /\ ~compiled => Dispatches(compute.bind_groups) # {}
          /\ pc' = IF compiled THEN "First" ELSE "panicked"
          /\ compute' = [compute EXCEPT
                !.dispatched = IF compiled THEN Dispatches(compute.bind_groups)
                               ELSE {}]
    /\ UNCHANGED <<geometry, load, build, scheduler, grid, world, analytic, skinning>>

InitCompute ==
    /\ pc = "First"
    /\ values = << <<>>, <<>> >>
    /\ variant = NoVariant
    /\ data = <<EmptyData, EmptyData>>
    /\ terms = << <<>>, <<>> >>
    /\ sample = IdleSample
    /\ raster = IdleRaster
    /\ ord = IdleOrd
    /\ Idle

NextCompute ==
    \/ First_clear_reqs
    \/ AssetEvent
    \/ PushRequest
    \/ preprocess_sdfs
    \/ queue_bind_groups
    \/ SdfComputeNode_run

SpecCompute == InitCompute /\ [][NextCompute]_vars

\* ---------------------------------- claims about the compute pipeline
\* The entity is in the request list of the tick and its Sdf, mesh asset,
\* image and GPU image are found.
Resolved(e) ==
    /\ e \in Range(compute.reqs)
    /\ compute.resolvable[e].sdf
    /\ compute.resolvable[e].mesh
    /\ compute.resolvable[e].image
    /\ compute.resolvable[e].gpu_image

\* The entities a warning of the tick is about.
Warned == {compute.warnings[j].ent : j \in 1..Len(compute.warnings)}

\* C26: a request lives for one tick.  An entity has a bind group in a
\* frame, and a dispatch, only if it is in the request list of that tick and
\* its Sdf, mesh asset, image and GPU image were found; a request of the
\* tick before that was not made again has neither; and a request that
\* cannot be resolved is skipped with a warning while every other request
\* that can be resolved gets its bind group and dispatch.
C26_RequestsLiveOneTick ==
    /\ pc = "Render" =>
          \A e \in Requesters :
             /\ compute.bind_groups[e] # ZERO <=> Resolved(e)
             /\ e \in Range(compute.reqs) /\ ~Resolved(e) <=> e \in Warned
             /\ e \in compute.earlier \ Range(compute.reqs)
                   => compute.bind_groups[e] = ZERO
    /\ pc = "First" =>
          \A e \in Requesters :
             /\ (\E d \in compute.dispatched : d.ent = e)
                   => Resolved(e) /\ compute.bind_groups[e] # ZERO
             /\ e \in compute.earlier \ Range(compute.reqs)
                   => ~\E d \in compute.dispatched : d.ent = e
             /\ Resolved(e)
                   => \E d \in compute.dispatched : d.ent = e

\* Both entities were requested in the tick before; in this tick only
\* entity 1 is, and the frame has dispatched entity 1 and not entity 2,
\* whose Sdf, mesh, image and GPU image are all there.
C26_Witness ==
    /\ pc = "First"
    /\ compute.earlier = {1, 2}
    /\ compute.reqs = <<1>>
    /\ \A r \in Resources : compute.resolvable[2][r]
    /\ compute.dispatched = {[ent |-> 1, groups |-> <<1, 1, 1>>]}

\* ------------------------------------------------------- generate_sdfs
\* Between two ticks: the mesh asset of an entity is loaded or dropped, or
\* its Aabb component is set.
WorldEvent ==
    /\ pc = "Tick"
    /\ \E e \in MeshEnts :
          \/ world' = [world EXCEPT ![e].loaded = ~@]
          \/ \E box \in Aabbs :
                /\ world[e].aabb # box
                /\ world' = [world EXCEPT ![e].aabb = box]
    /\ UNCHANGED <<pc, geometry, load, build, scheduler, grid, compute, analytic, skinning>>

\* One run of generate_sdfs, with its commands applied at the end of the
\* stage in the order they were issued.
generate_sdfs ==
    /\ pc = "Tick"
    /\ world' = InsertAnalyticSdfs(new_by_anal(world), InsertMeshSdfs(world))
    /\ UNCHANGED <<pc, geometry, load, build, scheduler, grid, compute, analytic, skinning>>

\* The entities are spawned with MeshSdf and a mesh handle, some with
\* AnalyticSdf too, with or without an Aabb, before or after their mesh is
\* loaded.
InitWorld ==
    /\ pc = "Tick"
    /\ values = << <<>>, <<>> >>
    /\ variant = NoVariant
    /\ data = <<EmptyData, EmptyData>>
    /\ terms = << <<>>, <<>> >>
    /\ sample = IdleSample
    /\ raster = IdleRaster
    /\ ord = IdleOrd
    /\ load = IdleLoad
    /\ build = [nan_sign_bit |-> TRUE]
    /\ IdleScheduler
    /\ grid = IdleGrid
    /\ compute = IdleCompute
    /\ analytic = IdleAnalytic
    /\ skinning = IdleSkin
    /\ world \in [MeshEnts ->
                    {[NoEntity EXCEPT !.analytic = with_fn, !.aabb = aabb,
                                      !.loaded = loaded] :
                        with_fn \in BOOLEAN, aabb \in Aabbs \cup {NoAabb},
                        loaded \in BOOLEAN}]

NextWorld ==
    \/ WorldEvent
    \/ generate_sdfs

SpecWorld == InitWorld /\ [][NextWorld]_vars

\* ----------------------------------------- claims about generate_sdfs
\* The step is a run of generate_sdfs.
Ticked == world' = InsertAnalyticSdfs(new_by_anal(world), InsertMeshSdfs(world))

\* What a tick does to entity e, which carries MeshSdf: without Sdf and
\* with its mesh available, the image is computed and the entity receives
\* an Sdf with that image and a copy of its Aabb; without Sdf and without
\* the mesh, it is left unchanged; with Sdf, it is not selected again.
TickOn(e) ==
    /\ world[e].sdf = NoSdf /\ world[e].loaded =>
          /\ world'[e].computed = world[e].computed + 1
          /\ world'[e].sdf = [image |-> "mesh", aabb |-> world[e].aabb]
    /\ world[e].sdf = NoSdf /\ ~world[e].loaded => world'[e] = world[e]
    /\ world[e].sdf # NoSdf => world'[e] = world[e]

\* C27: across any sequence of ticks, an entity with MeshSdf and no Sdf has
\* its SDF image computed in the first tick in which its mesh asset is
\* available and receives an Sdf holding that image and a copy of its Aabb;
\* while the mesh is unavailable it is left unchanged; once it carries Sdf it
\* is never selected again, so its SDF is computed at most once.
C27_ComputedOnce ==
    [][Ticked => \A e \in MeshEnts : TickOn(e) /\ world'[e].computed <= 1]_vars

\* C27, for the entities that have an Aabb and no AnalyticSdf.  An entity
\* without an Aabb is left unchanged whether its mesh is available or not;
\* an entity that carries AnalyticSdf too receives, in the first tick in
\* which it has an Aabb, an Sdf with the image of its function, and its
\* mesh image is computed as well if the mesh is available.
C27_ComputedOnceWithAabb ==
    [][Ticked =>
         \A e \in MeshEnts :
            /\ world'[e].computed <= 1
            /\ world[e].sdf # NoSdf \/ world[e].aabb = NoAabb
                  => world'[e] = world[e]
            /\ world[e].sdf = NoSdf /\ world[e].aabb # NoAabb =>
                  IF world[e].analytic
                  THEN /\ world'[e].sdf = [image |-> "fn", aabb |-> world[e].aabb]
                       /\ world'[e].computed =
                             world[e].computed + (IF world[e].loaded THEN 1 ELSE 0)
                  ELSE TickOn(e)]_vars

\* Entity 1 waited for its mesh through a tick and has its SDF, computed
\* once, with the box it had in the tick that computed it and not the one
\* it has now; entity 2 still waits.
C27_Witness ==
    /\ world[1].sdf = [image |-> "mesh", aabb |-> "box1"]
    /\ world[1].aabb = "box2"
    /\ world[1].computed = 1
    /\ ~world[1].analytic
    /\ world[2].sdf = NoSdf /\ ~world[2].loaded /\ world[2].aabb # NoAabb

\* --------------------------------------------- claims about the buffer
\* Grid dimensions whose byte length does not fit in a u32: 4 * 2^30 bytes
\* and 4 * (2^30 + 4) bytes.
WideDimensions == {<<1024, 1024, 1024>>, <<2, 2, 268435457>>}

\* One mesh is preprocessed and rasterized on a grid of any dimension.
InitBuffer ==
    /\ pc = "preprocess"
    /\ \E m \in Meshes : values = <<m, <<>> >>
    /\ variant = NoVariant
    /\ data = <<EmptyData, EmptyData>>
    /\ terms = << <<>>, <<>> >>
    /\ sample = IdleSample
    /\ \E dim \in Dimensions \cup WideDimensions :
          raster = [IdleRaster EXCEPT !.dimension = dim]
    /\ ord = IdleOrd
    /\ Idle

SpecBuffer == InitBuffer /\ [][NextRaster]_vars

\* dimX * dimY * dimZ
Cells(dimension) == dimension[1] * dimension[2] * dimension[3]

\* C28: for every grid dimension the buffer holds exactly dimX*dimY*dimZ
\* cells of 4 bytes and the loop writes each cell once, in increasing offset
\* order: the byte length does not wrap, the cell iterator is never
\* exhausted before the loop ends, and no cell is left unwritten.
C28_EveryCellOnce ==
    /\ pc # "panicked"
    /\ pc \in {"raster", "rasterized"} =>
          /\ Len(raster.data) % 4 = 0
          /\ Len(raster.data) \div 4 = Cells(raster.dimension)
          /\ Len(raster.visited) = raster.chunks
          /\ raster.chunks <= Cells(raster.dimension)
    /\ pc = "rasterized" => raster.chunks = Cells(raster.dimension)

\* -------------------------------------------------- create_sdf_from_fn
\* data.resize(4 * x * y * z, 0) and the chunk iterator at the first chunk,
\* for the grid the mesh was rasterized on.
FnResize ==
    /\ pc = "rasterized"
    /\ \E overflow_checks \in BOOLEAN :
          IF overflow_checks /\ ByteLengthOverflows(raster.dimension)
          THEN pc' = "panicked" /\ UNCHANGED analytic
          ELSE /\ analytic' = [IdleAnalytic EXCEPT
                     !.dimension = raster.dimension,
                     !.data = Zeroed(ToNat(ByteLength(raster.dimension)))]
               /\ pc' = "fn"
    /\ UNCHANGED <<geometry, load, build, scheduler, grid, compute, world, skinning>>

FnPass(r, point) ==
    /\ analytic' = [r EXCEPT
          !.data = CopyToChunk(@, r.chunks, to_le_bytes(FuncAt(point))),
          !.chunks = @ + 1,
          !.visited = Append(@, <<r.x, r.y, r.z>>),
          !.points = Append(@, point),
          !.x = FnNextCell(r.dimension, r.x, r.y, r.z)[1],
          !.y = FnNextCell(r.dimension, r.x, r.y, r.z)[2],
          !.z = FnNextCell(r.dimension, r.x, r.y, r.z)[3]]
    /\ pc' = IF FnNextCell(r.dimension, r.x, r.y, r.z)[1] < r.dimension[1]
             THEN "fn" ELSE "both"

\* One pass of the innermost loop of create_sdf_from_fn.
FnStep ==
    /\ pc = "fn"
    /\ IF HasNextChunk(analytic)
       THEN FnPass(analytic,
               FnPoint(Box, analytic.dimension, analytic.x, analytic.y, analytic.z))
       ELSE pc' = "panicked" /\ UNCHANGED analytic
    /\ UNCHANGED <<geometry, load, build, scheduler, grid, compute, world, skinning>>

NextLayout ==
    \/ PreprocessTriangle
    \/ Resize
    \/ RasterStep
    \/ FnResize
    \/ FnStep

\* A mesh and a function are sampled on the same grid.
SpecLayout == InitRaster /\ [][NextLayout]_vars

\* ------------------------------------------- claims about the two layouts
\* The index at which the tests read the sample of the lattice point p.
TestIndex(dim, p) == p[1] * dim[2] * dim[3] + p[2] * dim[3] + p[3]

Lattice(dim) == (0..dim[1] - 1) \X (0..dim[2] - 1) \X (0..dim[3] - 1)

\* The image of the function has the sample of every lattice point at the
\* index of the tests.
FnLayout ==
    pc = "both" =>
        \A p \in Lattice(analytic.dimension) :
            /\ analytic.visited[TestIndex(analytic.dimension, p) + 1] = p
            /\ \A k \in 0..3 :
                  analytic.data[4 * TestIndex(analytic.dimension, p) + k + 1] =
                     ByteOf(FuncAt(FnPoint(Box, analytic.dimension,
                                           p[1], p[2], p[3])), k)

\* C29: create_sdf_from_fn and create_sdf_from_mesh_cpu lay their samples
\* out identically: for every grid dimension and lattice point (x, y, z) the
\* sample of the point is at linear index x*dimY*dimZ + y*dimZ + z in both
\* images, the index the tests read them at.
C29_SameLayout ==
    /\ FnLayout
    /\ pc = "both" =>
          \A p \in Lattice(raster.dimension) :
              raster.visited[TestIndex(raster.dimension, p) + 1] = p

\* ------------------------------------------------ animated_aabb_for_mesh
\* The formats an attribute of the mesh can have, "" for a missing one.
PositionFormats == {"", "Float32x3", "Float32x2"}

WeightFormats == {"", "Float32x4", "Float32x3"}

IndexFormats == {"", "Uint16x4", "Uint32x4"}

\* Three vertices: moved by the first joint, shared between the two, moved
\* by the second; the same with no weight on any vertex; and no vertex.
SkinMeshes ==
    {SkinMesh(<< <<0, 0, 0>>, <<2, 0, 0>>, <<0, 2, 0>> >>,
              << <<1, 1>>, <<1, 2>>, <<2, 1>> >>, weights, indexed, indices) :
        weights \in {<< <<1, 0>>, <<1, 1>>, <<1, 0>> >>,
                     << <<0, 0>>, <<0, 0>>, <<0, 0>> >>},
        indexed \in BOOLEAN, indices \in {<<>>, <<3, 1>>, <<1, 2, 3, 2>>}}
    \cup {NoSkinMesh}

\* The look-ups that return None: the entity in mesh_query, the mesh, the
\* inverse bind poses and the three attributes in their formats.
LookUp ==
    /\ pc = "aabb"
    /\ IF /\ skinning.skinned /\ skinning.mesh_loaded /\ skinning.poses_loaded
          /\ skinning.position = "Float32x3"
          /\ skinning.joint_weight = "Float32x4"
          /\ skinning.joint_index = "Uint16x4"
       THEN pc' = "joints" /\ UNCHANGED skinning
       ELSE pc' = "returned" /\ skinning' = [skinning EXCEPT !.result = None]
    /\ UNCHANGED <<geometry, load, build, scheduler, grid, compute, world, analytic>>

\* The joint matrices are collected: the unwrap panics on a joint entity
\* without GlobalTransform.
CollectJoints ==
    /\ pc = "joints"
    /\ IF skinning.transforms
       THEN /\ pc' = IF Visited(skinning.mesh) = <<>> THEN "return" ELSE "fold"
            /\ skinning' = [skinning EXCEPT
                  !.i = 1,
                  !.minimum = <<FloatMax, FloatMax, FloatMax>>,
                  !.maximum = <<FloatMin, FloatMin, FloatMin>>]
       ELSE pc' = "panicked" /\ UNCHANGED skinning
    /\ UNCHANGED <<geometry, load, build, scheduler, grid, compute, world, analytic>>

\* One pass of the fold over the visited vertices.
FoldVertex ==
    /\ pc = "fold"
    /\ skinning' = [skinning EXCEPT
          !.minimum = FoldMin(@, weight(skinning.mesh, JointMatrices,
                                        Visited(skinning.mesh)[skinning.i])),
          !.maximum = FoldMax(@, weight(skinning.mesh, JointMatrices,
                                        Visited(skinning.mesh)[skinning.i])),
          !.i = @ + 1]
    /\ pc' = IF skinning.i < Len(Visited(skinning.mesh)) THEN "fold" ELSE "return"
    /\ UNCHANGED <<geometry, load, build, scheduler, grid, compute, world, analytic>>

\* The test of the bounds and the return.
Return ==
    /\ pc = "return"
    /\ pc' = "returned"
    /\ skinning' = [skinning EXCEPT !.result = Returned(skinning.minimum, skinning.maximum)]
    /\ UNCHANGED <<geometry, load, build, scheduler, grid, compute, world, analytic>>

InitSkin ==
    /\ pc = "aabb"
    /\ values = << <<>>, <<>> >>
    /\ variant = NoVariant
    /\ data = <<EmptyData, EmptyData>>
    /\ terms = << <<>>, <<>> >>
    /\ sample = IdleSample
    /\ raster = IdleRaster
    /\ ord = IdleOrd
    /\ load = IdleLoad
    /\ build = [nan_sign_bit |-> TRUE]
    /\ IdleScheduler
    /\ grid = IdleGrid
    /\ compute = IdleCompute
    /\ world = IdleWorld
    /\ analytic = IdleAnalytic
    /\ \E skinned, mesh_loaded, poses_loaded, transforms \in BOOLEAN :
         \E position \in PositionFormats, joint_weight \in WeightFormats,
            joint_index \in IndexFormats, mesh \in SkinMeshes :
            skinning = [IdleSkin EXCEPT
                      !.skinned = skinned, !.mesh_loaded = mesh_loaded,
                      !.poses_loaded = poses_loaded, !.transforms = transforms,
                      !.position = position, !.joint_weight = joint_weight,
                      !.joint_index = joint_index, !.mesh = mesh]

NextSkin ==
    \/ LookUp
    \/ CollectJoints
    \/ FoldVertex
    \/ Return

SpecSkin == InitSkin /\ [][NextSkin]_vars

\* -------------------------------- claims about animated_aabb_for_mesh
\* The cases in which the claim has None returned.
NoneCase ==
    \/ ~skinning.skinned \/ ~skinning.mesh_loaded \/ ~skinning.poses_loaded
    \/ skinning.position # "Float32x3"
    \/ skinning.joint_weight # "Float32x4"
    \/ skinning.joint_index # "Uint16x4"
    \/ Visited(skinning.mesh) = <<>>

\* The skinned positions of the visited vertices: the corner positions that
\* preprocess_mesh_for_sdf produces for the same mesh and joint matrices.
SkinnedPositions ==
    {weight(skinning.mesh, JointMatrices, Visited(skinning.mesh)[j]) :
        j \in 1..Len(Visited(skinning.mesh))}

\* C30: animated_aabb_for_mesh returns None, without panicking, when the
\* entity has no skinned mesh, the mesh or the inverse bind poses are not
\* loaded, an attribute is missing or of another format, or no vertex is
\* visited; otherwise it returns the box whose minimum and maximum are the
\* componentwise minimum and maximum of the skinned positions of the visited
\* vertices, which contains every corner position of the preprocessor.
C30_NoneOrBox ==
    /\ pc # "panicked"
    /\ pc = "returned" =>
          IF NoneCase THEN skinning.result = None
          ELSE /\ skinning.result.some
               /\ \A p \in SkinnedPositions :
                     /\ ~IsNaNVec(p)
                     /\ \A k \in 1..3 :
                           skinning.result.min[k] <= p[k] /\ p[k] <= skinning.result.max[k]
               /\ \A k \in 1..3 :
                     /\ \E p \in SkinnedPositions : p[k] = skinning.result.min[k]
                     /\ \E p \in SkinnedPositions : p[k] = skinning.result.max[k]

====
